---- MODULE Spec2Model ----
(***************************************************************************)
(* Model of the small-boats framing pipeline (lib/pipeline): the dominance *)
(* engine, the append-only JSON storage, poll validation and the refresh   *)
(* handler.  Shares, weights and scores are exact rationals: the number    *)
(* 0.45 is Q(45, 100), kept in lowest terms as [num |-> 9, den |-> 20].    *)
(***************************************************************************)
EXTENDS Integers, Sequences, FiniteSets, TLC

VARIABLES
    dsubject,    \* subjectId argument of compute_dominant_respect_now
    dmedia,      \* MediaFramingAggregate argument
    dpublic,     \* PublicPollingAggregate argument
    dsnapshot,   \* the DominanceSnapshot returned (Null before the call)
    dpc,         \* "call" before compute_dominant_respect_now ran, "done" after
    call,        \* one call of a pure function: its name, arguments and result
    store,       \* data/pipeline/small_boats: file name -> the JSON array it holds
    idCounter,   \* how many record ids id() has handed out
    log,         \* history: every record written by an append, in order, with its file
    lastCall,    \* history: the last direct call of a storage function and its outcome
    env,         \* process.env: which API keys are configured
    down,        \* the remote services that cannot be reached
    oracle,      \* the kind of reply the classification oracle gives
    rf           \* the locals of each call of refresh_small_boats

domVars == <<dsubject, dmedia, dpublic, dsnapshot, dpc, call>>

storeVars == <<store, idCounter, log, lastCall>>

refreshVars == <<env, down, oracle, rf>>

vars ==
    << dsubject, dmedia, dpublic, dsnapshot, dpc, call, store, idCounter, log, lastCall,
       env, down, oracle, rf >>

\* null / undefined where a record is expected
Null == [none |-> TRUE]

\* no pure function is being called
NoCall == [fn |-> "none", arg |-> <<>>, result |-> <<>>]

(***************************************************************************)
(* Generic sequence helpers.                                               *)
(***************************************************************************)
Range(s) == {s[i] : i \in 1..Len(s)}

RECURSIVE SumSeq(_)
SumSeq(s) == IF s = <<>> THEN 0 ELSE s[1] + SumSeq(Tail(s))

Front(s) == SubSeq(s, 1, Len(s) - 1)

Take(s, n) == SubSeq(s, 1, IF n < Len(s) THEN n ELSE Len(s))

Slice(s, from, to) == SubSeq(s, from + 1, IF to < Len(s) THEN to ELSE Len(s))

IsPrefix(s, t) == Len(s) <= Len(t) /\ SubSeq(t, 1, Len(s)) = s

Abs(x) == IF x < 0 THEN -x ELSE x

(***************************************************************************)
(* Numbers: a rational n/d in lowest terms with d > 0, so that two numbers *)
(* are equal exactly when their records are.                               *)
(***************************************************************************)
RECURSIVE Gcd(_, _)
Gcd(a, b) == IF b = 0 THEN a ELSE Gcd(b, a % b)

Q(n, d) == LET g == Gcd(Abs(n), d) IN [num |-> n \div g, den |-> d \div g]

Zero == Q(0, 1)

One == Q(1, 1)

Plus(a, b) == Q(a.num * b.den + b.num * a.den, a.den * b.den)

Minus(a, b) == Q(a.num * b.den - b.num * a.den, a.den * b.den)

Times(a, b) == Q(a.num * b.num, a.den * b.den)

\* a / b for b > 0
Over(a, b) == Q(a.num * b.den, a.den * b.num)

Less(a, b) == a.num * b.den < b.num * a.den

AtLeast(a, b) == ~Less(a, b)

AbsQ(a) == [num |-> Abs(a.num), den |-> a.den]

RECURSIVE SumQ(_)
SumQ(s) == IF s = <<>> THEN Zero ELSE Plus(s[1], SumQ(Tail(s)))

(***************************************************************************)
(* taxonomy.ts: the static catalog, in its declared order.                 *)
(***************************************************************************)
PIPELINE_RESPECTS ==
    << "security_border", "humanitarian", "rule_of_law", "sovereignty_control",
       "capacity_delivery", "economy_prosperity", "fairness_distribution",
       "stability_risk", "environment_sustainability", "national_interest_global" >>

PIPELINE_RESPECT_IDS == Range(PIPELINE_RESPECTS)

CatalogIndex(id) == CHOOSE i \in 1..Len(PIPELINE_RESPECTS) : PIPELINE_RESPECTS[i] = id

(***************************************************************************)
(* dominance.ts                                                            *)
(***************************************************************************)
MEDIA_WEIGHT == Q(45, 100)
PUBLIC_WEIGHT == Q(35, 100)
INSTITUTIONAL_WEIGHT == Q(20, 100)
\* the split-dominance threshold 0.1
SplitGap == Q(1, 10)

Subjects == {"small_boats", "other_subject"}

\* INSTITUTIONAL_RESPECT_BY_SUBJECT[subjectId]; Null when the subject has no entry
INSTITUTIONAL_RESPECT_BY_SUBJECT(subjectId) ==
    IF subjectId = "small_boats"
    THEN [ respect_id |-> "security_border",
           source_ids |-> << "institutional_illegal_migration_act",
                             "institutional_home_office_strategy" >> ]
    ELSE Null

\* Map.get(k) ?? 0 on a Map kept as the sequence of its entries in insertion order
MapGet(m, k) ==
    IF \E i \in 1..Len(m) : m[i].respect_id = k
    THEN m[CHOOSE i \in 1..Len(m) : m[i].respect_id = k].score
    ELSE Zero

\* a plausible slip: scores.set(k, v) without adding the value already there
MapOverwrite(m, k, v) ==
    IF \E i \in 1..Len(m) : m[i].respect_id = k
    THEN [i \in 1..Len(m) |-> IF m[i].respect_id = k
                              THEN [respect_id |-> k, score |-> v] ELSE m[i]]
    ELSE Append(m, [respect_id |-> k, score |-> v])

\* scores.set(k, (scores.get(k) ?? 0) + v): an existing key keeps its position
MapAdd(m, k, v) ==
    IF \E i \in 1..Len(m) : m[i].respect_id = k
    THEN [i \in 1..Len(m) |-> IF m[i].respect_id = k
                              THEN [respect_id |-> k, score |-> Plus(MapGet(m, k), v)]
                              ELSE m[i]]
    ELSE Append(m, [respect_id |-> k, score |-> v])

\* Array.prototype.sort((a, b) => b[1] - a[1]): stable, descending by score
InsertByScore(sorted, e) ==
    LET n == Cardinality({i \in 1..Len(sorted) : AtLeast(sorted[i].score, e.score)})
    IN  SubSeq(sorted, 1, n) \o <<e>> \o SubSeq(sorted, n + 1, Len(sorted))

RECURSIVE SortByScoreDesc(_)
SortByScoreDesc(s) ==
    IF s = <<>> THEN <<>> ELSE InsertByScore(SortByScoreDesc(Front(s)), s[Len(s)])

\* a plausible slip: the flag set whenever the gap is small, also with one framing
SplitDominanceNoLengthCheck(sorted) ==
    Len(sorted) < 2 \/ Less(AbsQ(Minus(sorted[1].score, sorted[2].score)), SplitGap)

SplitDominance(sorted) ==
    Len(sorted) >= 2 /\ Less(AbsQ(Minus(sorted[1].score, sorted[2].score)), SplitGap)

\* a plausible slip: the media block left out
VoteScoresWithoutMedia(media, publicAgg, subjectId) ==
    LET s2 == MapAdd(<<>>, publicAgg.public_prior.respect_id,
                     Times(publicAgg.public_prior.share, PUBLIC_WEIGHT))
        inst == INSTITUTIONAL_RESPECT_BY_SUBJECT(subjectId)
    IN  IF inst = Null THEN s2
        ELSE MapAdd(s2, inst.respect_id, INSTITUTIONAL_WEIGHT)

\* the scores Map after the media, public and institutional blocks
VoteScores(media, publicAgg, subjectId) ==
    LET s1 == MapAdd(<<>>, media.dominant.respect_id,
                     Times(media.dominant.share, MEDIA_WEIGHT))
        s2 == MapAdd(s1, publicAgg.public_prior.respect_id,
                     Times(publicAgg.public_prior.share, PUBLIC_WEIGHT))
        inst == INSTITUTIONAL_RESPECT_BY_SUBJECT(subjectId)
    IN  IF inst = Null THEN s2
        ELSE MapAdd(s2, inst.respect_id, INSTITUTIONAL_WEIGHT)

VoteContributors(media, publicAgg, subjectId) ==
    LET inst == INSTITUTIONAL_RESPECT_BY_SUBJECT(subjectId)
    IN  << [type |-> "media", respect_id |-> media.dominant.respect_id,
            weight |-> MEDIA_WEIGHT, value_share |-> media.dominant.share,
            source_ids |-> Take(media.source_ids, 5)],
           [type |-> "public", respect_id |-> publicAgg.public_prior.respect_id,
            weight |-> PUBLIC_WEIGHT, value_share |-> publicAgg.public_prior.share,
            source_ids |-> Take(publicAgg.source_ids, 5)] >>
        \o (IF inst = Null THEN <<>>
            ELSE << [type |-> "institutional", respect_id |-> inst.respect_id,
                     weight |-> INSTITUTIONAL_WEIGHT,
                     source_ids |-> inst.source_ids] >>)

\* a plausible slip: a clear winner is promoted by the engine itself
weightedVoteSelfPromoting(media, publicAgg, subjectId) ==
    LET sorted == SortByScoreDesc(VoteScores(media, publicAgg, subjectId))
    IN  [ dominant |-> sorted[1],
          contributors |-> VoteContributors(media, publicAgg, subjectId),
          status |-> IF SplitDominance(sorted) THEN "proposed" ELSE "validated",
          split_dominance |-> SplitDominance(sorted),
          alternative |-> Slice(sorted, 1, 4) ]

weightedVote(media, publicAgg, subjectId) ==
    LET sorted == SortByScoreDesc(VoteScores(media, publicAgg, subjectId))
    IN  [ dominant |-> sorted[1],
          contributors |-> VoteContributors(media, publicAgg, subjectId),
          status |-> "proposed",
          split_dominance |-> SplitDominance(sorted),
          alternative |-> Slice(sorted, 1, 4) ]

compute_dominant_respect_now(subjectId, mediaAgg, publicAgg) ==
    weightedVote(mediaAgg, publicAgg, subjectId)

(***************************************************************************)
(* Inputs of the dominance engine: aggregates as the aggregators return    *)
(* them (shares sorted by descending share; the first is the dominant /    *)
(* public prior; with no classified item the default security_border 0.5). *)
(***************************************************************************)
\* how many catalog framings, from the first, the input aggregates range over
MaxFraming == 3

InputRespects == {PIPELINE_RESPECTS[i] : i \in 1..MaxFraming}

ShareValues == {Q(n, 100) : n \in {8, 10, 30, 42, 50, 70, 90, 100}}

\* share lists: descending, summing to one whole
ShareProfiles ==
    {p \in UNION {[1..n -> ShareValues] : n \in 1..MaxFraming} :
        /\ SumQ(p) = One
        /\ \A i \in 1..(Len(p) - 1) : AtLeast(p[i], p[i + 1])}

ShareLists ==
    {<<>>} \cup
    UNION {{[i \in 1..Len(p) |-> [respect_id |-> f[i], share |-> p[i]]] :
                f \in {g \in [1..Len(p) -> InputRespects] :
                          \A i, j \in 1..Len(p) : i # j => g[i] # g[j]}} :
           p \in ShareProfiles}

\* a plausible slip: nothing classified counted as no share at all
DefaultShareZero == [respect_id |-> "security_border", share |-> Zero]

DefaultShare == [respect_id |-> "security_border", share |-> Q(1, 2)]

MediaAggOf(shares) ==
    [ dominant |-> IF shares = <<>> THEN DefaultShare ELSE shares[1],
      shares |-> shares,
      source_ids |-> IF shares = <<>> THEN <<>> ELSE <<"news_1">> ]

PublicAggOf(shares) ==
    [ public_prior |-> IF shares = <<>> THEN DefaultShare ELSE shares[1],
      shares |-> Take(shares, 5),
      source_ids |-> IF shares = <<>> THEN <<>> ELSE <<"poll_1">> ]

DomInit ==
    /\ dsubject \in Subjects
    /\ dmedia \in {MediaAggOf(s) : s \in ShareLists}
    /\ dpublic \in {PublicAggOf(s) : s \in ShareLists}
    /\ dsnapshot = Null
    /\ dpc = "call"
    /\ call = NoCall

ComputeDominance ==
    /\ dpc = "call"
    /\ dsnapshot' = compute_dominant_respect_now(dsubject, dmedia, dpublic)
    /\ dpc' = "done"
    /\ UNCHANGED <<dsubject, dmedia, dpublic, call>>
    /\ UNCHANGED storeVars
    /\ UNCHANGED refreshVars

DomNext == ComputeDominance

(***************************************************************************)
(* validate-poll.ts and scripts/import-polls.js.  A poll share is kept in  *)
(* hundredths; a sample size in tenths (1000 respondents is 10000, 1.5 is  *)
(* 15); an optional field is a sequence that is empty when the field is    *)
(* absent; a date string is the sequence of its tokens.                    *)
(***************************************************************************)
\* one whole (1.0) in the hundredths poll results are kept in
ShareUnit == 100
\* RESULTS_SUM_TOLERANCE 0.02, in hundredths
RESULTS_SUM_TOLERANCE == 2

MonthTokens == {"01", "02", "03", "04", "05", "06", "07", "08", "09", "10", "11", "12"}

DayTokens ==
    MonthTokens \cup {"13", "14", "15", "16", "17", "18", "19", "20", "21", "22",
                      "23", "24", "25", "26", "27", "28", "29", "30", "31"}

YearTokens == {"2024", "2025"}

\* !isNaN(Date.parse(s)) for the token forms YYYY, YYYY-MM and YYYY-MM-DD; any
\* other text (a word, an out-of-range month or day) does not parse
DateParses(t) ==
    \/ Len(t) = 1 /\ t[1] \in YearTokens
    \/ Len(t) = 3 /\ t[1] \in YearTokens /\ t[2] = "-" /\ t[3] \in MonthTokens
    \/ /\ Len(t) = 5 /\ t[1] \in YearTokens /\ t[2] = "-" /\ t[3] \in MonthTokens
       /\ t[4] = "-" /\ t[5] \in DayTokens

\* s.split(/\s+to\s+|-/)[0]: the tokens before the first "to" or "-"
FirstSplitPart(t) ==
    IF \E i \in 1..Len(t) : t[i] \in {"to", "-"}
    THEN SubSeq(t, 1, (CHOOSE i \in 1..Len(t) :
                          /\ t[i] \in {"to", "-"}
                          /\ \A j \in 1..(i - 1) : t[j] \notin {"to", "-"}) - 1)
    ELSE t

\* !s?.trim()
Blank(s) == s \in {"", " "}

\* the errors validateRawPollItem collects, as a set of error kinds
PollErrors(payload) ==
    LET sum == SumSeq(payload.results)
        part == FirstSplitPart(payload.fieldwork_dates)
    IN  {e \in {"pollster", "question", "options", "results", "length", "sum",
                "range", "fieldwork_dates", "published_at", "sample_size"} :
            \/ e = "pollster" /\ Blank(payload.pollster)
            \/ e = "question" /\ Blank(payload.question)
            \/ e = "options" /\ Len(payload.options) < 2
            \/ e = "results" /\ Len(payload.results) < 2
            \/ e = "length" /\ Len(payload.options) # Len(payload.results)
            \/ e = "sum" /\ Len(payload.results) > 0
                 /\ (sum < ShareUnit - RESULTS_SUM_TOLERANCE
                     \/ sum > ShareUnit + RESULTS_SUM_TOLERANCE)
            \/ e = "range" /\ \E i \in 1..Len(payload.results) :
                                 payload.results[i] < 0 \/ payload.results[i] > ShareUnit
            \/ e = "fieldwork_dates" /\ payload.fieldwork_dates # <<>>
                 /\ part # <<>> /\ ~DateParses(part)
            \/ e = "published_at" /\ payload.published_at # <<>>
                 /\ ~DateParses(payload.published_at)
            \/ e = "sample_size" /\ payload.sample_size # <<>>
                 /\ (payload.sample_size[1] < 10 \/ payload.sample_size[1] % 10 # 0)}

\* a plausible slip: the length comparison left out of the verdict
validateRawPollItemLengthIgnored(payload) ==
    [valid |-> PollErrors(payload) \ {"length"} = {}, errors |-> PollErrors(payload)]

validateRawPollItem(payload) ==
    [valid |-> PollErrors(payload) = {}, errors |-> PollErrors(payload)]

\* the polls the model feeds to the ingestion routes
GoodFieldwork == <<"2025", "-", "01", "-", "03", "to", "2025", "-", "01", "-", "05">>
GoodPublished == <<"2025", "-", "01", "-", "06">>

PollBase ==
    [ id |-> "poll_good", pollster |-> "YouGov", question |-> "How should the government handle Channel migration?",
      options |-> <<"Support tougher measures", "Oppose">>, results |-> <<58, 42>>,
      fieldwork_dates |-> GoodFieldwork, published_at |-> GoodPublished,
      sample_size |-> <<10000>> ]

PollHumane ==
    [PollBase EXCEPT !.id = "poll_humane",
                     !.options = <<"More humane approach", "Tougher measures", "Don't know">>,
                     !.results = <<45, 42, 13>>, !.sample_size = <<>>]

PollLengthMismatch ==
    [PollBase EXCEPT !.id = "poll_mismatch",
                     !.options = <<"Support tougher measures", "Oppose", "Don't know">>,
                     !.results = <<60, 40>>]

PollBadSum == [PollBase EXCEPT !.id = "poll_badsum", !.results = <<50, 60>>]

PollBadSample == [PollBase EXCEPT !.id = "poll_badsample", !.sample_size = <<15>>]

\* fieldwork_dates "soon to 2025-01-05"
PollBadFieldworkStart ==
    [PollBase EXCEPT !.id = "poll_badstart",
                     !.fieldwork_dates = <<"soon", "to", "2025", "-", "01", "-", "05">>]

\* fieldwork_dates "2025-13-45"
PollBadFieldworkDate ==
    [PollBase EXCEPT !.id = "poll_baddate",
                     !.fieldwork_dates = <<"2025", "-", "13", "-", "45">>]

\* published_at "yesterday"
PollBadPublished ==
    [PollBase EXCEPT !.id = "poll_badpub", !.published_at = <<"yesterday">>]

\* another pollster's poll filed under the id of PollBase
PollReissued == [PollBase EXCEPT !.pollster = "Ipsos", !.results = <<55, 45>>]

PollPool ==
    { PollBase, PollHumane, PollLengthMismatch, PollBadSum, PollBadSample,
      PollBadFieldworkStart, PollBadFieldworkDate, PollBadPublished, PollReissued }

(***************************************************************************)
(* Text facts.  Strings are atomic values, so what the code computes from  *)
(* the characters of a text (its tokens, which keywords it contains, its   *)
(* lower-case form) is tabulated for the texts the model uses.             *)
(***************************************************************************)
\* keyword_seeds of each catalog entry, as declared
KeywordSeeds(id) ==
    CASE id = "security_border" ->
           <<"stop", "deter", "secure", "crackdown", "illegal", "enforcement",
             "threat", "gangs", "border", "boats", "crossings", "stop the boats",
             "tougher measures", "deterrence", "intercept", "trafficker", "smuggler",
             "channel crossing", "border force">>
      [] id = "humanitarian" ->
           <<"dignity", "safety", "refuge", "compassion", "harm", "rescue", "welfare",
             "humanity", "protect", "vulnerable", "safe routes", "safe passage",
             "deaths at sea", "drowning", "charity", "refugee", "asylum seeker",
             "human rights">>
      [] id = "rule_of_law" ->
           <<"due process", "lawful", "ECHR", "HRA", "courts", "obligations",
             "procedures", "legal", "convention", "rights", "legal challenge",
             "judicial review", "ruling", "appeal", "human rights act", "court blocks",
             "lawful route">>
      [] id = "sovereignty_control" ->
           <<"control", "sovereignty", "mandate", "Parliament", "external constraint",
             "take back control", "take back control", "uk border", "british border",
             "national border">>
      [] id = "capacity_delivery" ->
           <<"backlog", "processing", "hotels", "inefficiency", "cost", "capacity",
             "system", "delivery", "asylum backlog", "processing delays",
             "hotel accommodation", "clearing the backlog", "casework">>
      [] id = "economy_prosperity" ->
           <<"workforce", "productivity", "skills", "growth", "pressure on services",
             "economy", "jobs">>
      [] id = "fairness_distribution" ->
           <<"fair", "fairness", "distribution", "equity", "access", "disadvantaged">>
      [] id = "stability_risk" ->
           <<"stability", "risk", "uncertainty", "volatility", "crisis">>
      [] id = "environment_sustainability" ->
           <<"environment", "climate", "sustainability", "green">>
      [] id = "national_interest_global" ->
           <<"national interest", "global", "international", "reputation", "standing">>

\* the texts the model feeds to the classifiers: headlines, metric labels and
\* source refs, a poll question and poll options
ModelTexts ==
    {"Small boats crossings hit record", "Charity warns of deaths at sea",
      "Court blocks deportation flight", "Minister visits school",
      "Minister Visits  School", "Asylum backlog grows", "Migrants rescued off Dover",
      "Channel crossings (small boats)", "Asylum backlog", "metric_gov_small_boats",
      "metric_fallback_reality", "How should the government handle Channel migration?",
      "Support tougher measures", "Oppose", "More humane approach", "Tougher measures",
      "Don't know", "Follow legal process"}

\* tokenize: lower-case, punctuation to spaces, split on white space, keep the
\* tokens longer than one character
Tokenize(text) ==
    CASE text = "Small boats crossings hit record" -> <<"small", "boats", "crossings", "hit", "record">>
      [] text = "Charity warns of deaths at sea" -> <<"charity", "warns", "of", "deaths", "at", "sea">>
      [] text = "Court blocks deportation flight" -> <<"court", "blocks", "deportation", "flight">>
      [] text = "Minister visits school" -> <<"minister", "visits", "school">>
      [] text = "Minister Visits  School" -> <<"minister", "visits", "school">>
      [] text = "Asylum backlog grows" -> <<"asylum", "backlog", "grows">>
      [] text = "Migrants rescued off Dover" -> <<"migrants", "rescued", "off", "dover">>
      [] text = "Channel crossings (small boats)" -> <<"channel", "crossings", "small", "boats">>
      [] text = "Asylum backlog" -> <<"asylum", "backlog">>
      [] text = "metric_gov_small_boats" -> <<"metric_gov_small_boats">>
      [] text = "metric_fallback_reality" -> <<"metric_fallback_reality">>
      [] text = "How should the government handle Channel migration?" -> <<"how", "should", "the", "government", "handle", "channel", "migration">>
      [] text = "Support tougher measures" -> <<"support", "tougher", "measures">>
      [] text = "Oppose" -> <<"oppose">>
      [] text = "More humane approach" -> <<"more", "humane", "approach">>
      [] text = "Tougher measures" -> <<"tougher", "measures">>
      [] text = "Don't know" -> <<"don", "know">>
      [] text = "Follow legal process" -> <<"follow", "legal", "process">>

\* the pairs <<s, x>> of model texts, tokens, seeds and pattern alternatives with
\* s.toLowerCase().includes(x.toLowerCase())
SubstringFacts ==
    {<<"Small boats crossings hit record", "boats">>,
      <<"Small boats crossings hit record", "crossings">>,
      <<"Small boats crossings hit record", "small boat">>,
      <<"Small boats crossings hit record", "small boats">>,
      <<"Charity warns of deaths at sea", "deaths at sea">>,
      <<"Charity warns of deaths at sea", "charity">>,
      <<"Court blocks deportation flight", "court blocks">>,
      <<"Court blocks deportation flight", "court">>,
      <<"Court blocks deportation flight", "deportation">>,
      <<"Asylum backlog grows", "backlog">>,
      <<"Asylum backlog grows", "asylum backlog">>,
      <<"Asylum backlog grows", "asylum">>, <<"Migrants rescued off Dover", "rescue">>,
      <<"Migrants rescued off Dover", "migrant">>,
      <<"Migrants rescued off Dover", "migrants">>,
      <<"Migrants rescued off Dover", "dover">>,
      <<"Channel crossings (small boats)", "boats">>,
      <<"Channel crossings (small boats)", "crossings">>,
      <<"Channel crossings (small boats)", "channel crossing">>,
      <<"Channel crossings (small boats)", "small boat">>,
      <<"Channel crossings (small boats)", "small boats">>,
      <<"Channel crossings (small boats)", "channel crossings">>,
      <<"Asylum backlog", "backlog">>, <<"Asylum backlog", "asylum backlog">>,
      <<"Asylum backlog", "asylum">>, <<"metric_gov_small_boats", "boats">>,
      <<"Support tougher measures", "tougher measures">>,
      <<"Support tougher measures", "tough">>, <<"More humane approach", "humane">>,
      <<"Tougher measures", "tougher measures">>, <<"Tougher measures", "tough">>,
      <<"Follow legal process", "legal">>, <<"Follow legal process", "process">>,
      <<"boats", "boats">>, <<"crossings", "crossings">>, <<"charity", "charity">>,
      <<"court", "court">>, <<"deportation", "deportation">>, <<"asylum", "asylum">>,
      <<"backlog", "backlog">>, <<"migrants", "migrant">>, <<"migrants", "migrants">>,
      <<"rescued", "rescue">>, <<"dover", "dover">>,
      <<"metric_gov_small_boats", "boats">>, <<"tougher", "tough">>,
      <<"humane", "humane">>, <<"legal", "legal">>, <<"process", "process">>,
      <<"illegal", "legal">>, <<"threat", "at">>, <<"boats", "at">>,
      <<"stop the boats", "boats">>, <<"stop the boats", "at">>,
      <<"stop the boats", "the">>, <<"tougher measures", "tougher">>,
      <<"tougher measures", "measures">>, <<"channel crossing", "channel">>,
      <<"deaths at sea", "deaths">>, <<"deaths at sea", "at">>,
      <<"deaths at sea", "sea">>, <<"asylum seeker", "asylum">>,
      <<"due process", "process">>, <<"courts", "court">>, <<"obligations", "at">>,
      <<"legal challenge", "legal">>, <<"court blocks", "court">>,
      <<"court blocks", "blocks">>, <<"mandate", "at">>, <<"national border", "at">>,
      <<"processing", "process">>, <<"asylum backlog", "asylum">>,
      <<"asylum backlog", "backlog">>, <<"processing delays", "process">>,
      <<"hotel accommodation", "at">>, <<"clearing the backlog", "backlog">>,
      <<"clearing the backlog", "the">>, <<"volatility", "at">>, <<"climate", "at">>,
      <<"national interest", "at">>, <<"international", "at">>, <<"reputation", "at">>}

IncludesCI(s, x) == <<s, x>> \in SubstringFacts

\* s.toLowerCase().replace(/\s+/g, " ")
LowerCase(s) ==
    CASE s = "Small boats crossings hit record" -> "small boats crossings hit record"
      [] s = "Charity warns of deaths at sea" -> "charity warns of deaths at sea"
      [] s = "Court blocks deportation flight" -> "court blocks deportation flight"
      [] s = "Minister visits school" -> "minister visits school"
      [] s = "Minister Visits  School" -> "minister visits school"
      [] s = "Asylum backlog grows" -> "asylum backlog grows"
      [] s = "Migrants rescued off Dover" -> "migrants rescued off dover"
      [] s = "BBC" -> "bbc"
      [] s = "The Guardian" -> "the guardian"
      [] s = "Reuters" -> "reuters"
      [] s = "Daily Mail" -> "daily mail"

\* getSubjectKeywords: SUBJECT_KEYWORDS.small_boats for every subject
SUBJECT_KEYWORDS ==
    {"small boat", "small boats", "channel crossing", "channel crossings", "migrant",
      "migrants", "asylum", "refugee", "border", "illegal migration", "home office",
      "suella", "rishi", "rwanda", "deterrence", "dover", "calais", "backlog", "ECHR",
      "human rights act", "legal challenge", "court", "deportation"}

(***************************************************************************)
(* classifier.ts: the keyword classifier.  A text is the sequence of the   *)
(* strings joined with " " to make it; a score is counted in half points.  *)
(***************************************************************************)
TextTokens(parts) ==
    IF parts = <<>> THEN <<>>
    ELSE LET RECURSIVE Cat(_)
             Cat(i) == IF i > Len(parts) THEN <<>> ELSE Tokenize(parts[i]) \o Cat(i + 1)
         IN  Cat(1)

TokenHit(parts, seed) ==
    \E t \in Range(TextTokens(parts)) : IncludesCI(t, seed) \/ IncludesCI(seed, t)

TextHit(parts, seed) == \E i \in 1..Len(parts) : IncludesCI(parts[i], seed)

\* the seeds pushed to `matched`, in the order scoreText pushes them
RECURSIVE MatchedSeeds(_, _, _)
MatchedSeeds(parts, seeds, matched) ==
    IF seeds = <<>> THEN matched
    ELSE LET seed == Head(seeds)
             m1 == IF TokenHit(parts, seed) THEN Append(matched, seed) ELSE matched
             m2 == IF TextHit(parts, seed) /\ seed \notin Range(m1)
                   THEN Append(m1, seed) ELSE m1
         IN  MatchedSeeds(parts, Tail(seeds), m2)

\* the score of one catalog entry: 1 per seed hit by a token, 0.5 per seed
\* found in the text
SeedScore(parts, id) ==
    LET seeds == KeywordSeeds(id)
    IN  Q(2 * Cardinality({i \in 1..Len(seeds) : TokenHit(parts, seeds[i])})
            + Cardinality({i \in 1..Len(seeds) : TextHit(parts, seeds[i])}), 2)

\* scoreText: the entries with a positive score, stable-sorted by descending score
scoreText(parts) ==
    LET all == [i \in 1..Len(PIPELINE_RESPECTS) |->
                   [ respect_id |-> PIPELINE_RESPECTS[i],
                     score |-> SeedScore(parts, PIPELINE_RESPECTS[i]),
                     matched |-> MatchedSeeds(parts, KeywordSeeds(PIPELINE_RESPECTS[i]), <<>>) ]]
    IN  SortByScoreDesc(SelectSeq(all, LAMBDA e : Less(Zero, e.score)))

MaxQ(a, b) == IF Less(a, b) THEN b ELSE a

MinQ(a, b) == IF Less(b, a) THEN b ELSE a

\* a plausible slip: the clamp to [0.3, 0.95] left out
normalizeConfidenceUnclamped(score, maxScore) ==
    IF ~Less(Zero, maxScore) THEN Q(1, 2) ELSE Over(score, MaxQ(maxScore, Q(3, 1)))

normalizeConfidence(score, maxScore) ==
    IF ~Less(Zero, maxScore) THEN Q(1, 2)
    ELSE MinQ(Q(95, 100), MaxQ(Q(3, 10), Over(score, MaxQ(maxScore, Q(3, 1)))))

classifyMediaItem(subject_id, item) ==
    LET scored == scoreText(<<item.title>> \o item.lede)
    IN  [ item_type |-> "media", subject_id |-> subject_id, item_id |-> item.id,
          respect_id |-> IF scored = <<>> THEN "security_border" ELSE scored[1].respect_id,
          confidence |-> IF scored = <<>> THEN Q(1, 2)
                         ELSE normalizeConfidence(scored[1].score, scored[1].score),
          rationale |-> IF scored # <<>> /\ scored[1].matched # <<>>
                        THEN "Matched" ELSE "No keyword match; default security_border",
          extracted_phrases |-> IF scored = <<>> THEN <<>> ELSE scored[1].matched ]

POLL_RESPECT_MAP ==
    << [pattern |-> {"tough", "stop", "deter", "crackdown", "reduce numbers", "boats"},
        respect_id |-> "security_border"],
       [pattern |-> {"humane", "dignity", "protect", "refugee", "safe route"},
        respect_id |-> "humanitarian"],
       [pattern |-> {"ECHR", "HRA", "legal", "court", "due process", "law"},
        respect_id |-> "rule_of_law"],
       [pattern |-> {"sovereignty", "control", "take back"},
        respect_id |-> "sovereignty_control"] >>

\* pattern.test(text) for a case-insensitive alternation of literals
PatternTest(pattern, parts) == \E alt \in pattern : TextHit(parts, alt)

classifyPollItem(subject_id, item) ==
    LET parts == <<item.question>> \o item.options
        scored == scoreText(parts)
        hits == {i \in 1..Len(POLL_RESPECT_MAP) : PatternTest(POLL_RESPECT_MAP[i].pattern, parts)}
    IN  IF hits # {}
        THEN [ item_type |-> "poll", subject_id |-> subject_id, item_id |-> item.id,
               respect_id |-> POLL_RESPECT_MAP[CHOOSE i \in hits : \A j \in hits : i <= j].respect_id,
               confidence |-> Q(65, 100), rationale |-> "Pattern match",
               extracted_phrases |-> <<>> ]
        ELSE [ item_type |-> "poll", subject_id |-> subject_id, item_id |-> item.id,
               respect_id |-> IF scored = <<>> THEN "security_border" ELSE scored[1].respect_id,
               confidence |-> IF scored = <<>> THEN Q(1, 2)
                              ELSE normalizeConfidence(scored[1].score, scored[1].score),
               rationale |-> IF scored # <<>> /\ scored[1].matched # <<>>
                             THEN "Matched" ELSE "Default security_border",
               extracted_phrases |-> IF scored = <<>> THEN <<>> ELSE scored[1].matched ]

classifyMetricItem(subject_id, item) ==
    LET scored == scoreText(<<item.label>> \o item.source_ref)
    IN  [ item_type |-> "metric", subject_id |-> subject_id, item_id |-> item.metric_id,
          respect_id |-> IF scored = <<>> THEN "capacity_delivery" ELSE scored[1].respect_id,
          confidence |-> IF scored = <<>> THEN Q(1, 2) ELSE Q(7, 10),
          rationale |-> IF scored # <<>> /\ scored[1].matched # <<>>
                        THEN "Matched" ELSE "Metric label; default capacity",
          extracted_phrases |-> IF scored = <<>> THEN <<>> ELSE scored[1].matched ]

(***************************************************************************)
(* The aggregators (media framing, public polling, reality metrics).  A    *)
(* publish date is the item's age in days when the refresh runs.           *)
(***************************************************************************)
\* Array.prototype.find: <<element>>, or <<>> for undefined
Find(s, Test(_)) ==
    LET idx == {i \in 1..Len(s) : Test(s[i])}
    IN  IF idx = {} THEN <<>> ELSE <<s[CHOOSE i \in idx : \A j \in idx : i <= j]>>

\* Array.from(new Set(ids)): first occurrences, in order
RECURSIVE Unique(_)
Unique(s) ==
    IF s = <<>> THEN <<>>
    ELSE LET rest == Unique(Front(s))
         IN  IF s[Len(s)] \in Range(rest) THEN rest ELSE Append(rest, s[Len(s)])

MapSeq(s, F(_)) == [i \in 1..Len(s) |-> F(s[i])]

recencyDecay(daysAgo) == MaxQ(Q(1, 10), Minus(One, Q(daysAgo, 14)))

\* the weight aggregate_media_framing gives a classified media item
MediaWeight(c, rawMedia) ==
    LET raw == Find(rawMedia, LAMBDA m : m.id = c.item_id)
    IN  Times(recencyDecay(IF raw = <<>> THEN 0 ELSE raw[1].days_ago), c.confidence)

\* byRespect after the loop over the classified items, as [respect_id, score]
RECURSIVE WeightByRespect(_, _)
WeightByRespect(cs, rawMedia) ==
    IF cs = <<>> THEN <<>>
    ELSE MapAdd(WeightByRespect(Front(cs), rawMedia), cs[Len(cs)].respect_id,
                MediaWeight(cs[Len(cs)], rawMedia))

\* a plausible slip: the sums are reported without dividing by their total
SharesOfUnnormalised(byRespect) ==
    MapSeq(SortByScoreDesc(byRespect), LAMBDA e : [respect_id |-> e.respect_id, share |-> e.score])

\* entries divided by their total (|| 1) and stable-sorted by descending share
SharesOf(byRespect) ==
    LET sum == SumQ(MapSeq(byRespect, LAMBDA e : e.score))
        total == IF sum = Zero THEN One ELSE sum
        sorted == SortByScoreDesc(MapSeq(byRespect,
                      LAMBDA e : [respect_id |-> e.respect_id, score |-> Over(e.score, total)]))
    IN  MapSeq(sorted, LAMBDA e : [respect_id |-> e.respect_id, share |-> e.score])

\* new Map(mediaClassified.map(c => [c.item_id, c])).get(id): the last entry wins
LastClassifiedFor(cs, id) ==
    LET idx == {i \in 1..Len(cs) : cs[i].item_id = id}
    IN  cs[CHOOSE i \in idx : \A j \in idx : j <= i]

\* getMediaType of refresh.ts for an item without media_type: the outlet, lower
\* case and without a leading "the", looked up in OUTLET_TO_MEDIA_TYPE
getMediaType(item) ==
    CASE item.outlet = "BBC" -> "broadcast"
      [] item.outlet = "The Guardian" -> "broadsheet"
      [] item.outlet = "Daily Mail" -> "tabloid"
      [] item.outlet = "Reuters" -> "wire"
      [] OTHER -> "online"

\* one entry of media_type_breakdown, with its sort key n as score
MediaTypeEntry(mt, mediaClassified, rawMedia) ==
    LET typeItems == SelectSeq(rawMedia, LAMBDA m : getMediaType(m) = mt)
        typeClassified ==
            SelectSeq(mediaClassified, LAMBDA c :
                /\ \E m \in Range(rawMedia) : m.id = c.item_id
                /\ getMediaType(Find(rawMedia, LAMBDA m : m.id = c.item_id)[1]) = mt)
    IN  [ media_type |-> mt, n |-> Len(typeItems), weight |-> Q(Len(typeItems), Len(rawMedia)),
          shares |-> SharesOf(WeightByRespect(typeClassified, typeItems)),
          score |-> Q(Len(typeItems), 1) ]

\* media_type_breakdown: one entry per media type in order of first appearance,
\* stable-sorted by descending n
MediaTypeBreakdown(mediaClassified, rawMedia) ==
    MapSeq(SortByScoreDesc(MapSeq(Unique(MapSeq(rawMedia, getMediaType)),
                                  LAMBDA mt : MediaTypeEntry(mt, mediaClassified, rawMedia))),
           LAMBDA e : [media_type |-> e.media_type, n |-> e.n, weight |-> e.weight,
                       shares |-> e.shares])

aggregate_media_framing(subject_id, classified, rawMedia, window_days) ==
    LET mediaClassified == SelectSeq(classified, LAMBDA c : c.item_type = "media")
        shares == SharesOf(WeightByRespect(mediaClassified, rawMedia))
        itemWeights == SortByScoreDesc(MapSeq(mediaClassified,
                           LAMBDA c : [itemId |-> c.item_id, score |-> MediaWeight(c, rawMedia)]))
        found == SelectSeq(Take(itemWeights, 5),
                           LAMBDA w : \E m \in Range(rawMedia) : m.id = w.itemId)
        exemplarOf(w) ==
            LET m == Find(rawMedia, LAMBDA x : x.id = w.itemId)[1]
                c == LastClassifiedFor(mediaClassified, m.id)
            IN  [ source_id |-> m.id, outlet |-> m.outlet, title |-> m.title, url |-> m.url,
                  days_ago |-> m.days_ago, respect_id |-> c.respect_id,
                  confidence |-> c.confidence ]
    IN  [ window |-> [from |-> window_days, to |-> 0],
          dominant |-> IF shares = <<>> THEN DefaultShare ELSE shares[1],
          shares |-> shares,
          exemplars |-> MapSeq(Take(found, 6), exemplarOf),
          source_ids |-> Unique(MapSeq(rawMedia, LAMBDA m : m.id)),
          volume |-> Len(rawMedia),
          media_type_breakdown |-> MediaTypeBreakdown(mediaClassified, rawMedia),
          media_source |-> "rss" ]

POLL_OPTION_TO_RESPECT ==
    << [pattern |-> {"tough", "stop", "reduce", "control", "border", "crackdown"},
        respect_id |-> "security_border"],
       [pattern |-> {"humane", "protect", "refugee", "dignity", "safe"},
        respect_id |-> "humanitarian"],
       [pattern |-> {"legal", "law", "ECHR", "process"}, respect_id |-> "rule_of_law"],
       [pattern |-> {"sovereignty", "take back"}, respect_id |-> "sovereignty_control"] >>

\* out after the options up to the n-th; shares are in hundredths, as results are
RECURSIVE MappedOptions(_, _)
MappedOptions(poll, n) ==
    IF n = 0 THEN <<>>
    ELSE LET out == MappedOptions(poll, n - 1)
             pct == IF n <= Len(poll.results) THEN poll.results[n] ELSE 0
             hits == {i \in 1..Len(POLL_OPTION_TO_RESPECT) :
                         PatternTest(POLL_OPTION_TO_RESPECT[i].pattern, <<poll.options[n]>>)}
             rid == POLL_OPTION_TO_RESPECT[CHOOSE i \in hits : \A j \in hits : i <= j].respect_id
         IN  IF hits = {} THEN out
             ELSE IF \E i \in 1..Len(out) : out[i].respect_id = rid
             THEN [i \in 1..Len(out) |->
                      IF out[i].respect_id = rid
                      THEN [respect_id |-> rid, share |-> out[i].share + pct] ELSE out[i]]
             ELSE Append(out, [respect_id |-> rid, share |-> pct])

mapPollToRespectShare(poll) ==
    LET out == MappedOptions(poll, Len(poll.options))
    IN  IF out = <<>> THEN <<[respect_id |-> "security_border", share |-> 50]>> ELSE out

\* byRespect after the loop over the classified polls, as [respect_id, score]
RECURSIVE PollWeightByRespect(_, _)
PollWeightByRespect(cs, rawPolls) ==
    IF cs = <<>> THEN <<>>
    ELSE LET prev == PollWeightByRespect(Front(cs), rawPolls)
             c == cs[Len(cs)]
             poll == Find(rawPolls, LAMBDA p : p.id = c.item_id)
             RECURSIVE AddAll(_, _)
             AddAll(m, mapped) ==
                 IF mapped = <<>> THEN m
                 ELSE AddAll(MapAdd(m, mapped[1].respect_id,
                                    Times(Q(mapped[1].share, 100), c.confidence)),
                             Tail(mapped))
         IN  IF poll = <<>> THEN prev ELSE AddAll(prev, mapPollToRespectShare(poll[1]))

\* one question_level entry
PollQuestionOf(p) ==
    LET mapped == SortByScoreDesc(MapSeq(mapPollToRespectShare(p),
                      LAMBDA o : [respect_id |-> o.respect_id, share |-> o.share,
                                  score |-> Q(o.share, 100)]))
    IN  [ source_id |-> p.id, pollster |-> p.pollster, question |-> p.question,
          fieldwork_dates |-> p.fieldwork_dates, mapped_respect |-> mapped[1].respect_id,
          result_pct |-> mapped[1].share, sample_size |-> p.sample_size,
          option_results |->
              IF Len(p.options) > 0 /\ Len(p.options) = Len(p.results)
              THEN <<[i \in 1..Len(p.options) |-> [option |-> p.options[i], pct |-> p.results[i]]]>>
              ELSE <<>> ]

aggregate_public_polling(subject_id, classified, rawPolls, window_months) ==
    LET pollClassified == SelectSeq(classified, LAMBDA c : c.item_type = "poll")
        sorted == SharesOf(PollWeightByRespect(pollClassified, rawPolls))
    IN  [ window |-> [from |-> window_months, to |-> 0],
          public_prior |-> IF sorted = <<>> THEN DefaultShare ELSE sorted[1],
          shares |-> Take(sorted, 5),
          supporting_polls |-> MapSeq(Take(rawPolls, 10),
              LAMBDA p : [source_id |-> p.id, pollster |-> p.pollster, question |-> p.question]),
          source_ids |-> Unique(MapSeq(rawPolls, LAMBDA p : p.id)),
          question_level |-> MapSeq(rawPolls, PollQuestionOf) ]

aggregate_reality_metrics(subject_id, rawMetrics) ==
    [ metrics |-> MapSeq(rawMetrics, LAMBDA m :
          [ metric_id |-> m.metric_id, label |-> m.label, latest |-> m.latest_value,
            previous |-> m.previous_value, delta |-> m.latest_value - m.previous_value,
            direction |-> IF m.latest_value > m.previous_value THEN "up"
                          ELSE IF m.latest_value < m.previous_value THEN "down" ELSE "flat",
            readings |-> <<"security_border", "humanitarian", "rule_of_law">>,
            source_id |-> m.source_ref ]),
      source_ids |-> Unique(MapSeq(SelectSeq(rawMetrics, LAMBDA m : m.source_ref # <<>>),
                                   LAMBDA m : m.source_ref[1])) ]

(***************************************************************************)
(* The environment of a refresh: the configured API keys, the remote       *)
(* services that cannot be reached (a fetch to one of them times out or    *)
(* fails) and the kind of reply the classification oracle gives when it    *)
(* can be reached.  What a reachable service returns is fixed.             *)
(***************************************************************************)
SUBJECT_ID == "small_boats"

\* how many entries a remote feed or API returns
MaxFeed == 2

\* how many of the UK_RSS_FEEDS the model fetches
MaxRssFeeds == 2

NoUrl == ""

Article(title, outlet, url, daysAgo) ==
    [title |-> title, outlet |-> outlet, url |-> url, days_ago |-> daysAgo]

NewsApiArticles ==
    << Article("Small boats crossings hit record", "Reuters", "https://news.example/a", 1),
       Article("Charity warns of deaths at sea", "The Guardian", "https://news.example/b", 2),
       Article("Asylum backlog grows", "Daily Mail", "https://news.example/d", 3) >>

GuardianArticles ==
    << Article("Court blocks deportation flight", "The Guardian", "https://guardian.example/c", 0),
       Article("Small boats crossings hit record", "The Guardian", "https://news.example/a", 1),
       Article("Migrants rescued off Dover", "The Guardian", "https://guardian.example/e", 4) >>

GNewsArticles ==
    << Article("Minister visits school", "BBC", NoUrl, 1),
       Article("Minister Visits  School", "BBC", NoUrl, 1),
       Article("Asylum backlog grows", "Daily Mail", "https://news.example/d", 3) >>

UK_RSS_FEEDS ==
    << [url |-> "https://feeds.bbci.co.uk/news/uk/rss.xml", outlet |-> "BBC"],
       [url |-> "https://feeds.bbci.co.uk/news/politics/rss.xml", outlet |-> "BBC"],
       [url |-> "https://www.theguardian.com/uk-news/rss", outlet |-> "The Guardian"] >>

RssFeeds == Take(UK_RSS_FEEDS, MaxRssFeeds)

\* the entries each feed serves
RssEntries(feedUrl) ==
    CASE feedUrl = "https://feeds.bbci.co.uk/news/uk/rss.xml" ->
           << Article("Small boats crossings hit record", "BBC", "https://bbc.example/1", 1),
              Article("Minister visits school", "BBC", "https://bbc.example/2", 1),
              Article("Asylum backlog grows", "BBC", "https://bbc.example/3", 20) >>
      [] feedUrl = "https://feeds.bbci.co.uk/news/politics/rss.xml" ->
           << Article("Small boats crossings hit record", "BBC", "https://bbc.example/1", 1),
              Article("Migrants rescued off Dover", "BBC", "https://bbc.example/4", 2),
              Article("Court blocks deportation flight", "BBC", NoUrl, 3) >>
      [] feedUrl = "https://www.theguardian.com/uk-news/rss" ->
           << Article("Court blocks deportation flight", "The Guardian", NoUrl, 3),
              Article("Migrants rescued off Dover", "The Guardian", "https://guardian.example/e", 4),
              Article("Asylum backlog grows", "The Guardian", "https://guardian.example/f", 5) >>

GOV_SMALL_BOATS_URL ==
    "https://www.gov.uk/government/publications/migrants-detected-crossing-the-english-channel-in-small-boats"

PARTY_DOCS ==
    << [party_id |-> "conservative", canonical_url |-> "https://www.conservatives.com/plan",
        title |-> "Conservative Party Manifesto 2024"],
       [party_id |-> "labour", canonical_url |-> "https://labour.org.uk/change/",
        title |-> "Labour Party Manifesto 2024"],
       [party_id |-> "reform", canonical_url |-> "https://www.reformuk.uk/policies",
        title |-> "Reform UK Contract 2024"],
       [party_id |-> "green", canonical_url |-> "https://greenparty.org.uk/our-policies/",
        title |-> "Green Party Manifesto 2024"] >>

\* the length of the plain text each party page yields
PlainTextLength(partyId) ==
    CASE partyId = "conservative" -> 5000
      [] partyId = "labour" -> 250
      [] partyId = "reform" -> 100
      [] partyId = "green" -> 5000

NEWS_API_BASE == "https://newsapi.org/v2"
GUARDIAN_API_BASE == "https://content.guardianapis.com/search"
GNEWS_BASE == "https://gnews.io/api/v4"
OPENAI == "https://api.openai.com"

Services ==
    {NEWS_API_BASE, GUARDIAN_API_BASE, GNEWS_BASE, GOV_SMALL_BOATS_URL, OPENAI}
    \cup {f.url : f \in Range(RssFeeds)}
    \cup {d.canonical_url : d \in Range(PARTY_DOCS)}

OracleReplies == {"ok", "no_classifications", "non_json", "json_null"}

(***************************************************************************)
(* source-model.ts and the connectors.                                     *)
(***************************************************************************)
\* sourcesIndex[ref.id] = ref on an object kept as its entries in insertion order
SetSource(index, ref) ==
    IF \E i \in 1..Len(index) : index[i].id = ref.id
    THEN [i \in 1..Len(index) |-> IF index[i].id = ref.id THEN ref ELSE index[i]]
    ELSE Append(index, ref)

RECURSIVE SetSources(_, _)
SetSources(index, refs) ==
    IF refs = <<>> THEN index ELSE SetSources(SetSource(index, Head(refs)), Tail(refs))

HasSource(index, id) == \E i \in 1..Len(index) : index[i].id = id

createSourceRef(id, title, type, role) == [id |-> id, title |-> title, type |-> type, role |-> role]

\* the id a connector gives the article at index i (0-based) of its reply
ConnectorItemId(connector, i) ==
    CASE connector = "news_api" ->
           <<"news_news_api_0", "news_news_api_1", "news_news_api_2", "news_news_api_3">>[i + 1]
      [] connector = "guardian_api" ->
           <<"news_guardian_api_0", "news_guardian_api_1", "news_guardian_api_2",
             "news_guardian_api_3">>[i + 1]
      [] connector = "gnews" ->
           <<"news_gnews_0", "news_gnews_1", "news_gnews_2", "news_gnews_3">>[i + 1]
      [] connector = "rss" ->
           <<"news_news_0", "news_news_1", "news_news_2", "news_news_3", "news_news_4",
             "news_news_5", "news_news_6", "news_news_7", "news_news_8">>[i + 1]

\* url && url.startsWith("http")
IsHttp(url) == url # NoUrl

\* the dedupe key of refresh and of the connectors
mediaKey(m) ==
    IF IsHttp(m.url) THEN <<"url", m.url, "", 0>>
    ELSE <<"text", LowerCase(m.title), LowerCase(m.outlet), m.days_ago>>

RawMediaOf(id, a) ==
    [ id |-> id, outlet |-> a.outlet, title |-> a.title, lede |-> <<>>, url |-> a.url,
      days_ago |-> a.days_ago, respect_id |-> <<>> ]

\* the loop over the articles of an API reply: skip seen keys, keep the rest
RECURSIVE ApiItems(_, _, _)
ApiItems(connector, articles, n) ==
    IF n = 0 THEN <<>>
    ELSE LET prev == ApiItems(connector, articles, n - 1)
             a == articles[n]
         IN  IF \E m \in Range(prev) : mediaKey(m) = mediaKey(a) THEN prev
             ELSE Append(prev, RawMediaOf(ConnectorItemId(connector, n - 1), a))

SourcesOfItems(items) ==
    MapSeq(items, LAMBDA m : createSourceRef(m.id, m.title, "news_headline", "media_framing"))

EmptyResult == [items |-> <<>>, sources |-> <<>>]

\* collectNewsFromApi, collectGuardianFromApi, collectGNewsFromApi
CollectFromApi(connector, base, articles, keySet, unreachable) ==
    IF ~keySet \/ base \in unreachable THEN EmptyResult
    ELSE LET items == ApiItems(connector, Take(articles, MaxFeed), Len(Take(articles, MaxFeed)))
         IN  [items |-> items, sources |-> SourcesOfItems(items)]

collectNewsFromApi(e, unreachable) ==
    CollectFromApi("news_api", NEWS_API_BASE, NewsApiArticles, e.NEWS_API_KEY, unreachable)

collectGuardianFromApi(e, unreachable) ==
    CollectFromApi("guardian_api", GUARDIAN_API_BASE, GuardianArticles, e.GUARDIAN_API_KEY,
                   unreachable)

collectGNewsFromApi(e, unreachable) ==
    CollectFromApi("gnews", GNEWS_BASE, GNewsArticles, e.GNEWS_API_KEY, unreachable)

matchSubject(title) == \E k \in SUBJECT_KEYWORDS : IncludesCI(title, k)

\* the entries of all feeds, feed after feed, with the feeds that failed left out
RECURSIVE RssCandidates(_, _)
RssCandidates(feeds, unreachable) ==
    IF feeds = <<>> THEN <<>>
    ELSE (IF Head(feeds).url \in unreachable THEN <<>>
          ELSE Take(RssEntries(Head(feeds).url), MaxFeed))
         \o RssCandidates(Tail(feeds), unreachable)

RECURSIVE RssItems(_, _, _)
RssItems(entries, n, windowDays) ==
    IF n = 0 THEN <<>>
    ELSE LET prev == RssItems(entries, n - 1, windowDays)
             a == entries[n]
         IN  IF \/ ~matchSubject(a.title)
                \/ a.days_ago > windowDays
                \/ \E m \in Range(prev) : mediaKey(m) = mediaKey(a)
             THEN prev
             ELSE Append(prev, RawMediaOf(ConnectorItemId("rss", Len(prev)), a))

collectNewsHeadlines(windowDays, unreachable) ==
    LET entries == RssCandidates(RssFeeds, unreachable)
        items == RssItems(entries, Len(entries), windowDays)
    IN  [items |-> items, sources |-> SourcesOfItems(items)]

MetricItems(sourceRef) ==
    << [ metric_id |-> "channel_crossings", label |-> "Channel crossings (small boats)",
         latest_value |-> 43600, previous_value |-> 29500, source_ref |-> <<sourceRef>> ],
       [ metric_id |-> "asylum_backlog", label |-> "Asylum backlog",
         latest_value |-> 95000, previous_value |-> 90000, source_ref |-> <<sourceRef>> ] >>

\* a plausible slip: nothing returned when GOV.UK cannot be reached
collectRealityMetricsEmptyOnFailure(unreachable) ==
    IF GOV_SMALL_BOATS_URL \notin unreachable
    THEN [ items |-> MetricItems("metric_gov_small_boats"),
           sources |-> << createSourceRef("metric_gov_small_boats",
                              "Migrants detected crossing the English Channel in small boats",
                              "official_stat", "reality_metric") >> ]
    ELSE EmptyResult

\* collectRealityMetrics: the catch block returns the same two metrics, cited
\* to a fallback source
collectRealityMetrics(unreachable) ==
    IF GOV_SMALL_BOATS_URL \notin unreachable
    THEN [ items |-> MetricItems("metric_gov_small_boats"),
           sources |-> << createSourceRef("metric_gov_small_boats",
                              "Migrants detected crossing the English Channel in small boats",
                              "official_stat", "reality_metric") >> ]
    ELSE [ items |-> MetricItems("metric_fallback_reality"),
           sources |-> << createSourceRef("metric_fallback_reality",
                              "Reality metrics (GOV.UK unavailable)", "dataset",
                              "reality_metric") >> ]

\* ingestPartyDocs: the documents fetched, and the parties whose text is kept
ingestPartyDocs(unreachable) ==
    LET fetched == SelectSeq(PARTY_DOCS, LAMBDA d : d.canonical_url \notin unreachable)
    IN  [ sources |-> MapSeq(fetched, LAMBDA d :
              createSourceRef(CASE d.party_id = "conservative" -> "party_conservative_manifesto"
                                [] d.party_id = "labour" -> "party_labour_manifesto"
                                [] d.party_id = "reform" -> "party_reform_manifesto"
                                [] d.party_id = "green" -> "party_green_manifesto",
                              d.title, "manifesto", "party_stance_authoritative")),
          documentTextByParty |->
              MapSeq(SelectSeq(fetched, LAMBDA d : PlainTextLength(d.party_id) > 200),
                     LAMBDA d : d.party_id) ]

\* the oracle's label for a headline when it answers properly
OracleLabel(title) ==
    CASE title = "Charity warns of deaths at sea" -> "humanitarian"
      [] title = "Court blocks deportation flight" -> "rule_of_law"
      [] title = "Asylum backlog grows" -> "capacity_delivery"
      [] OTHER -> "security_border"

\* classifyMediaWithLLM; "throws" when the returned promise rejects
classifyMediaWithLLM(subject_id, items, reply, unreachable) ==
    IF items = <<>> THEN [throws |-> FALSE, classified |-> <<>>]
    ELSE IF OPENAI \in unreachable \/ reply = "json_null"
    THEN [throws |-> TRUE, classified |-> <<>>]
    ELSE IF reply = "non_json" THEN [throws |-> FALSE, classified |-> <<>>]
    ELSE [ throws |-> FALSE,
           classified |-> MapSeq(items, LAMBDA m :
               [ item_type |-> "media", subject_id |-> subject_id, item_id |-> m.id,
                 respect_id |-> IF reply = "ok" THEN OracleLabel(m.title) ELSE "security_border",
                 confidence |-> Q(8, 10), rationale |-> "LLM classification",
                 extracted_phrases |-> <<>> ]) ]

(***************************************************************************)
(* storage.ts: append-only JSON arrays, one per record kind.               *)
(***************************************************************************)
Files ==
    { "raw_media", "raw_polls", "raw_metrics", "classified", "aggregates",
      "dominance_snapshots", "view_models" }

\* readJson: the array in the file ([] when the file does not exist)
readJson(st, file) == st[file]

\* a plausible slip: the array is rebuilt from the new record alone
appendJsonOverwrite(st, file, record) == [st EXCEPT ![file] = <<record>>]

\* a plausible slip: unshift instead of push
appendJsonAtFront(st, file, record) == [st EXCEPT ![file] = <<record>> \o readJson(st, file)]

\* appendJson: read the whole array, push the record, write the whole array
appendJson(st, file, record) == [st EXCEPT ![file] = Append(readJson(st, file), record)]

\* the record an append function builds; n is the number of the id() it draws
StoredRecord(n, subjectId, source, payload) ==
    [id |-> n, subject_id |-> subjectId, source |-> source, payload |-> payload]

\* a plausible slip: the first record of the subject instead of the last
getLatestViewModelFirst(st, subjectId) ==
    LET forSubject == SelectSeq(readJson(st, "view_models"),
                                LAMBDA r : r.subject_id = subjectId)
    IN  IF Len(forSubject) = 0 THEN <<>> ELSE <<forSubject[1].payload>>

\* getLatestViewModel: <<payload>>, or <<>> for null
getLatestViewModel(st, subjectId) ==
    LET forSubject == SelectSeq(readJson(st, "view_models"),
                                LAMBDA r : r.subject_id = subjectId)
    IN  IF Len(forSubject) = 0 THEN <<>> ELSE <<forSubject[Len(forSubject)].payload>>

getRawPollsForSubject(st, subjectId) ==
    SelectSeq(readJson(st, "raw_polls"), LAMBDA r : r.subject_id = subjectId)

getRawMediaForSubject(st, subjectId) ==
    SelectSeq(readJson(st, "raw_media"), LAMBDA r : r.subject_id = subjectId)

\* how many records the model lets the store hold
MaxRecords == 3

RECURSIVE TotalRecords(_, _)
TotalRecords(st, files) ==
    IF files = {} THEN 0
    ELSE LET f == CHOOSE x \in files : TRUE
         IN  Len(st[f]) + TotalRecords(st, files \ {f})

StoreHasRoom == TotalRecords(store, Files) < MaxRecords

\* the payloads direct callers append
\* curated media: a pre-labelled headline, and an old one without a label
Curated1 ==
    [ id |-> "curated_1", outlet |-> "The Guardian", title |-> "Charity warns of deaths at sea",
      lede |-> <<>>, url |-> "https://news.example/b", days_ago |-> 2,
      respect_id |-> <<"humanitarian">> ]

Curated2 ==
    [ id |-> "curated_2", outlet |-> "BBC", title |-> "Asylum backlog grows", lede |-> <<>>,
      url |-> "https://bbc.example/3", days_ago |-> 20, respect_id |-> <<>> ]

SampleMedia == Curated1
SampleMetric == [metric_id |-> "channel_crossings", source_ref |-> <<"metric_gov_small_boats">>]
SampleViewModels == {[subject_id |-> s, as_of |-> t] : s \in Subjects, t \in {1, 2}}

StoreInit ==
    /\ store = [f \in Files |-> <<>>]
    /\ idCounter = 0
    /\ log = <<>>
    /\ lastCall = [op |-> "none", subject |-> "", arg |-> <<>>, result |-> "none",
                   value |-> <<>>, before |-> [f \in Files |-> <<>>]]

\* one direct call of an append function that stores `payload` in `file`
DirectAppend(op, file, subjectId, source, payload) ==
    LET record == StoredRecord(idCounter + 1, subjectId, source, payload)
    IN  /\ StoreHasRoom
        /\ store' = appendJson(store, file, record)
        /\ idCounter' = idCounter + 1
        /\ log' = Append(log, [file |-> file, record |-> record])
        /\ lastCall' = [op |-> op, subject |-> subjectId, arg |-> <<payload>>,
                        result |-> "ok", value |-> <<record>>, before |-> store]
        /\ UNCHANGED domVars
        /\ UNCHANGED refreshVars

AppendRawMedia == DirectAppend("appendRawMedia", "raw_media", "small_boats", "curated", SampleMedia)

AppendRawMetric ==
    DirectAppend("appendRawMetric", "raw_metrics", "small_boats", "manual", SampleMetric)

AppendClassified ==
    DirectAppend("appendClassified", "classified", "small_boats", "",
                 [item_type |-> "media", item_id |-> "curated_1"])

AppendAggregate ==
    DirectAppend("appendAggregate", "aggregates", "small_boats", "media_14d",
                 MediaAggOf(<<>>))

AppendDominanceSnapshot ==
    DirectAppend("appendDominanceSnapshot", "dominance_snapshots", "small_boats", "",
                 compute_dominant_respect_now("small_boats", MediaAggOf(<<>>), PublicAggOf(<<>>)))

SaveViewModel ==
    \E vm \in SampleViewModels :
        DirectAppend("saveViewModel", "view_models", vm.subject_id, "", vm)

\* appendRawPoll: throws before anything is written when the validator objects
AppendRawPoll ==
    \E payload \in PollPool :
        IF validateRawPollItem(payload).valid
        THEN DirectAppend("appendRawPoll", "raw_polls", "small_boats", "manual", payload)
        ELSE /\ lastCall' = [op |-> "appendRawPoll", subject |-> "small_boats",
                             arg |-> <<payload>>, result |-> "error", value |-> <<>>,
                             before |-> store]
             /\ UNCHANGED <<store, idCounter, log>>
             /\ UNCHANGED domVars
             /\ UNCHANGED refreshVars

\* the checks of the import script's validate
ImportErrors(payload) ==
    LET sum == SumSeq(payload.results)
    IN  {e \in {"pollster", "question", "options", "results", "length", "sum", "sample_size"} :
            \/ e = "pollster" /\ Blank(payload.pollster)
            \/ e = "question" /\ Blank(payload.question)
            \/ e = "options" /\ Len(payload.options) < 2
            \/ e = "results" /\ Len(payload.results) < 2
            \/ e = "length" /\ Len(payload.options) # Len(payload.results)
            \/ e = "sum" /\ Len(payload.results) > 0
                 /\ (sum < ShareUnit - RESULTS_SUM_TOLERANCE
                     \/ sum > ShareUnit + RESULTS_SUM_TOLERANCE)
            \/ e = "sample_size" /\ payload.sample_size # <<>>
                 /\ (payload.sample_size[1] < 10 \/ payload.sample_size[1] % 10 # 0)}

\* the payload the import script builds: a missing published_at becomes the
\* time of the import
ImportedPayload(p) ==
    [p EXCEPT !.published_at = IF p.published_at = <<>> THEN GoodPublished ELSE p.published_at]

\* scripts/import-polls.js run on a file with one poll: a poll its validate
\* objects to is skipped with a warning
ImportPolls ==
    \E p \in PollPool :
        IF ImportErrors(p) = {}
        THEN DirectAppend("importPolls", "raw_polls", "small_boats", "import", ImportedPayload(p))
        ELSE /\ lastCall' = [op |-> "importPolls", subject |-> "small_boats",
                             arg |-> <<p>>, result |-> "skipped", value |-> <<>>,
                             before |-> store]
             /\ UNCHANGED <<store, idCounter, log>>
             /\ UNCHANGED domVars
             /\ UNCHANGED refreshVars

\* raw_polls.json edited by hand: a record is added with no check at all
EditRawPolls ==
    \E p \in PollPool : DirectAppend("edit", "raw_polls", "small_boats", "manual", p)

GetLatestViewModel ==
    \E subjectId \in Subjects :
        /\ lastCall' = [op |-> "getLatestViewModel", subject |-> subjectId, arg |-> <<>>,
                        result |-> "ok", value |-> getLatestViewModel(store, subjectId),
                        before |-> store]
        /\ UNCHANGED <<store, idCounter, log>>
        /\ UNCHANGED domVars
        /\ UNCHANGED refreshVars

DomIdle ==
    /\ dsubject = "small_boats"
    /\ dmedia = MediaAggOf(<<>>)
    /\ dpublic = PublicAggOf(<<>>)
    /\ dsnapshot = Null
    /\ dpc = "idle"
    /\ call = NoCall

StorageNext ==
    \/ AppendRawMedia
    \/ AppendRawPoll
    \/ AppendRawMetric
    \/ AppendClassified
    \/ AppendAggregate
    \/ AppendDominanceSnapshot
    \/ SaveViewModel
    \/ GetLatestViewModel

(***************************************************************************)
(* refresh.ts: refresh_small_boats.  One action per stretch of the handler *)
(* between two awaits; a stretch runs to completion before any other code  *)
(* of the process runs, and the storage calls in it are synchronous.       *)
(***************************************************************************)
Procs == {"r1", "r2"}

MEDIA_WINDOW_DAYS == 14
MEDIA_WINDOW_DAYS_NEWS_API == 14
POLL_WINDOW_MONTHS == 6

\* party positions of the DRCM data file the route loads, already in pipeline ids
DRCM_POSITIONS ==
    << [ actor_id |-> "conservative", primary |-> "security_border",
         secondary |-> <<"sovereignty_control">>,
         evidence |-> <<[doc_id |-> "doc_conservative_2024", section |-> "migration"]>> ],
       [ actor_id |-> "labour", primary |-> "capacity_delivery", secondary |-> <<>>,
         evidence |-> <<>> ] >>

\* ids of drcmData.corpus.documents
DRCM_DOCUMENTS == {"doc_conservative_2024"}

\* what runPriorityExtraction returns for a party when the extraction succeeds
ExtractedPosition(partyId) ==
    [ actor_id |-> partyId,
      primary |-> IF partyId = "green" THEN "humanitarian" ELSE "sovereignty_control",
      secondary |-> <<>>,
      evidence |-> <<[doc_id |-> "manifesto_today", section |-> "ref"]>> ]

\* sourceId("party", actor_doc_section) and sourceId("party", actor_manifesto)
PartySourceId(actor, docId) ==
    CASE docId = "doc_conservative_2024" -> "party_conservative_doc_conservative_2024_migration"
      [] docId = "manifesto_today" /\ actor = "conservative" ->
           "party_conservative_conservative_manifesto_today_ref"
      [] docId = "manifesto_today" /\ actor = "green" -> "party_green_green_manifesto_today_ref"
      [] docId = "" /\ actor = "conservative" -> "party_conservative_manifesto"
      [] docId = "" /\ actor = "labour" -> "party_labour_manifesto"
      [] docId = "" /\ actor = "green" -> "party_green_manifesto"
      [] docId = "" /\ actor = "reform" -> "party_reform_manifesto"

\* mergePartyPositionsIntoDRCM for one extracted position
mergePartyPositionsIntoDRCM(pos, positions) ==
    IF \E i \in 1..Len(positions) : positions[i].actor_id = pos.actor_id
    THEN [i \in 1..Len(positions) |->
             IF positions[i].actor_id = pos.actor_id THEN pos ELSE positions[i]]
    ELSE Append(positions, pos)

\* the extraction loop over the parties whose text is long enough
RECURSIVE ExtractAll(_, _, _)
ExtractAll(parties, positions, unreachable) ==
    IF parties = <<>> THEN positions
    ELSE ExtractAll(Tail(parties),
                    IF PlainTextLength(Head(parties)) < 300 \/ OPENAI \in unreachable
                    THEN positions
                    ELSE mergePartyPositionsIntoDRCM(ExtractedPosition(Head(parties)), positions),
                    unreachable)

\* extractPartyStance: the overrides, and the registry with the evidence sources
\* it adds
RECURSIVE extractPartyStance(_, _)
extractPartyStance(positions, index) ==
    IF positions = <<>> THEN [overrides |-> <<>>, index |-> index]
    ELSE LET before == extractPartyStance(Front(positions), index)
             pos == positions[Len(positions)]
             ev == Take(pos.evidence, 3)
             ids == IF ev = <<>> THEN <<PartySourceId(pos.actor_id, "")>>
                    ELSE MapSeq(ev, LAMBDA e : PartySourceId(pos.actor_id, e.doc_id))
             refs == IF ev = <<>>
                     THEN <<createSourceRef(ids[1], "manifesto", "manifesto",
                                            "party_stance_authoritative")>>
                     ELSE MapSeq(SelectSeq(ev, LAMBDA e : e.doc_id \in DRCM_DOCUMENTS),
                                 LAMBDA e : createSourceRef(PartySourceId(pos.actor_id, e.doc_id),
                                                "document", "manifesto",
                                                "party_stance_authoritative"))
             fresh == SelectSeq(refs, LAMBDA r : ~HasSource(before.index, r.id))
         IN  [ overrides |-> Append(before.overrides,
                   [ party_id |-> pos.actor_id, primary_respect |-> pos.primary,
                     secondary_respect |-> pos.secondary, evidence_source_ids |-> ids ]),
               index |-> SetSources(before.index, fresh) ]

institutionalRefs ==
    << createSourceRef("institutional_illegal_migration_act", "Illegal Migration Act 2023",
                       "policy_doc", "institutional_constraint"),
       createSourceRef("institutional_home_office_strategy", "Home Office small boats strategy",
                       "policy_doc", "institutional_constraint") >>

\* a plausible slip: the third word of the vocabulary put to use
relationToDominantReframes(partyPrimary, dominantId) ==
    IF partyPrimary = dominantId THEN "matches"
    ELSE IF partyPrimary \in {"security_border", "sovereignty_control"} THEN "challenges"
    ELSE "reframes"

\* view-model.ts
relationToDominant(partyPrimary, dominantId) ==
    IF partyPrimary = dominantId THEN "matches" ELSE "challenges"

fitPublic(partyPrimary, publicPriorId) == IF partyPrimary = publicPriorId THEN "ok" ELSE "warn"

fitMedia(partyPrimary, mediaDominantId) == IF partyPrimary = mediaDominantId THEN "ok" ELSE "warn"

\* a plausible slip: only a metric that went up speaks for a framing
fitRealityRisingOnly(partyPrimary, realityAgg) ==
    IF \E m \in Range(Take(realityAgg.metrics, 2)) : m.direction = "up" /\ partyPrimary \in Range(m.readings)
    THEN "ok" ELSE "warn"

fitReality(partyPrimary, realityAgg) ==
    IF \E m \in Range(Take(realityAgg.metrics, 2)) : partyPrimary \in Range(m.readings)
    THEN "ok" ELSE "warn"

buildPartyCard(pos, dominantId, mediaAgg, publicAgg, realityAgg, override, summary) ==
    LET primaryId == IF override = <<>> THEN pos.primary ELSE override[1].primary_respect
        secondary == IF override = <<>> THEN pos.secondary ELSE override[1].secondary_respect
    IN  [ party_id |-> pos.actor_id,
          primary_respect |-> primaryId,
          secondary_respect |-> secondary,
          relation_to_dominant |-> relationToDominant(primaryId, dominantId),
          summary_of_findings |-> summary,
          evidence_source_ids |->
              IF override = <<>>
              THEN MapSeq(Take(pos.evidence, 3), LAMBDA e : PartySourceId(pos.actor_id, e.doc_id))
              ELSE override[1].evidence_source_ids,
          fit |-> [ public |-> fitPublic(primaryId, publicAgg.public_prior.respect_id),
                    media |-> fitMedia(primaryId, mediaAgg.dominant.respect_id),
                    reality |-> fitReality(primaryId, realityAgg) ] ]

build_subject_view_model(subjectId, positions, mediaAgg, publicAgg, realityAgg, dominance, sourcesIndex, overrides, staleness, summaries) ==
    [ subject |-> subjectId,
      dominant_respect |-> dominance,
      party_cards |-> MapSeq(positions, LAMBDA pos :
          buildPartyCard(pos, dominance.dominant.respect_id, mediaAgg, publicAgg, realityAgg,
                         Find(overrides, LAMBDA o : o.party_id = pos.actor_id),
                         IF pos.actor_id \in summaries THEN <<"summary">> ELSE <<>>)),
      media_framing |-> mediaAgg,
      public_polling |-> publicAgg,
      reality_metrics |-> realityAgg,
      sources_index |-> sourcesIndex,
      staleness |-> staleness ]

\* the locals of one call of refresh_small_boats
IdleLocals ==
    [ pc |-> "idle", sourcesIndex |-> <<>>, positions |-> <<>>, documentTextByParty |-> <<>>,
      overrides |-> <<>>, results |-> <<>>, newsResult |-> EmptyResult, mediaSource |-> "rss",
      mediaWindowDays |-> MEDIA_WINDOW_DAYS, rawMedia |-> <<>>, rawPolls |-> <<>>,
      rawMetrics |-> <<>>, mediaToClassify |-> <<>>, classified |-> <<>>,
      classifiedBy |-> "none", mediaAgg |-> Null, publicAgg |-> Null, realityAgg |-> Null,
      dominance |-> Null, summaries |-> {}, viewModel |-> Null, rssCalled |-> FALSE,
      round |-> 0 ]

\* a refresh in flight: its locals l, and the store, id count and write log it
\* has produced so far
Ctx(l, st, n, lg) == [l |-> l, st |-> st, n |-> n, lg |-> lg]

\* a storage append called from the handler
CtxAppend(c, file, source, payload) ==
    LET record == StoredRecord(c.n + 1, SUBJECT_ID, source, payload)
    IN  [c EXCEPT !.st = appendJson(c.st, file, record), !.n = c.n + 1,
                  !.lg = Append(c.lg, [file |-> file, record |-> record])]

\* lines 283-304: build and save the view model, return
FinishRefresh(c) ==
    LET l == c.l
        viewModel == build_subject_view_model(SUBJECT_ID, l.positions, l.mediaAgg, l.publicAgg,
                         l.realityAgg, l.dominance, l.sourcesIndex, l.overrides,
                         [ media_updated |-> l.rawMedia # <<>>, polling_updated |-> l.rawPolls # <<>>,
                           metrics_updated |-> l.rawMetrics # <<>> ],
                         l.summaries)
        saved == CtxAppend(c, "view_models", "", viewModel)
    IN  [saved EXCEPT !.l = [l EXCEPT !.viewModel = viewModel, !.pc = "done"]]

\* lines 258-281: the summaries are awaited when there is a key and a position;
\* with no summary to await the handler runs on to its end
SummariesOrFinish(c, e) ==
    IF e.OPENAI_API_KEY /\ c.l.positions # <<>> THEN c ELSE FinishRefresh(c)

\* a plausible slip: the snapshot is stored ahead of the aggregates
AppendAggregatesSnapshotFirst(c, classified, mediaAgg, publicAgg, realityAgg, dominance) ==
    [ CtxAppend(
        CtxAppend(
          CtxAppend(
            CtxAppend(c, "dominance_snapshots", "", dominance),
            "aggregates", "media_14d", mediaAgg),
          "aggregates", "public_6m", publicAgg),
        "aggregates", "metrics_latest", realityAgg)
      EXCEPT !.l = [c.l EXCEPT !.classified = classified, !.mediaAgg = mediaAgg,
                               !.publicAgg = publicAgg, !.realityAgg = realityAgg,
                               !.dominance = dominance, !.pc = "summaries"] ]

\* lines 250-256: the three aggregates and the dominance snapshot are appended
AppendAggregates(c, classified, mediaAgg, publicAgg, realityAgg, dominance) ==
    [ CtxAppend(
        CtxAppend(
          CtxAppend(
            CtxAppend(c, "aggregates", "media_14d", mediaAgg),
            "aggregates", "public_6m", publicAgg),
          "aggregates", "metrics_latest", realityAgg),
        "dominance_snapshots", "", dominance)
      EXCEPT !.l = [c.l EXCEPT !.classified = classified, !.mediaAgg = mediaAgg,
                               !.publicAgg = publicAgg, !.realityAgg = realityAgg,
                               !.dominance = dominance, !.pc = "summaries"] ]

\* lines 246-249: the aggregates of the classified items, and the dominance
\* computed from them
Aggregate(c, e, classified) ==
    LET l == c.l
        Store(mediaAgg, publicAgg, realityAgg) ==
            SummariesOrFinish(
                AppendAggregates(c, classified, mediaAgg, publicAgg, realityAgg,
                                 compute_dominant_respect_now(SUBJECT_ID, mediaAgg, publicAgg)),
                e)
    IN  Store([aggregate_media_framing(SUBJECT_ID, classified, l.rawMedia, l.mediaWindowDays)
                  EXCEPT !.media_source = l.mediaSource],
              aggregate_public_polling(SUBJECT_ID, classified, l.rawPolls, POLL_WINDOW_MONTHS),
              aggregate_reality_metrics(SUBJECT_ID, l.rawMetrics))

\* lines 243-244: polls and metrics are classified by the keyword classifier
AfterMediaClassified(c, e) ==
    Aggregate(c, e,
              c.l.classified
              \o MapSeq(c.l.rawPolls, LAMBDA p : classifyPollItem(SUBJECT_ID, p))
              \o MapSeq(c.l.rawMetrics, LAMBDA m : classifyMetricItem(SUBJECT_ID, m)))

\* the polls of the store that pass the gate of line 197
GatedPolls(stored) ==
    MapSeq(SelectSeq(stored, LAMBDA r : validateRawPollItem(r.payload).valid),
           LAMBDA r : r.payload)

\* a plausible slip: no check of the keys already seen
MergeKeepingAll(merged, items) == merged \o items

\* a plausible slip: the item seen last replaces the one seen first
MergeLastWins(merged, items) ==
    LET all == merged \o items
        RECURSIVE Keep(_)
        Keep(i) ==
            IF i > Len(all) THEN <<>>
            ELSE (IF \E j \in (i + 1)..Len(all) : mediaKey(all[j]) = mediaKey(all[i])
                  THEN <<>> ELSE <<all[i]>>) \o Keep(i + 1)
    IN  Keep(1)

\* stored media first, then the fetched items, skipping keys already seen
RECURSIVE MergeByKey(_, _)
MergeByKey(merged, items) ==
    IF items = <<>> THEN merged
    ELSE MergeByKey(IF \E m \in Range(merged) : mediaKey(m) = mediaKey(Head(items))
                    THEN merged ELSE Append(merged, Head(items)),
                    Tail(items))

\* lines 158-242: the metrics and news results are taken over, stored media and
\* polls are read and merged, pre-labelled media are classified; the oracle is
\* awaited when it is configured and there is something to classify
AfterNews(c, e, newsResult) ==
    LET l == c.l
        storedMedia == MapSeq(getRawMediaForSubject(c.st, SUBJECT_ID), LAMBDA r : r.payload)
        storedKept == MergeByKey(<<>>, storedMedia)
        rawMedia == MergeByKey(storedKept, newsResult.items)
        rawPolls == GatedPolls(getRawPollsForSubject(c.st, SUBJECT_ID))
        index == SetSources(
                   SetSources(
                     SetSources(SetSources(l.sourcesIndex, newsResult.sources),
                                MapSeq(storedKept, LAMBDA m : createSourceRef(m.id, m.title,
                                           "news_headline", "media_framing"))),
                     l.results.metrics.sources),
                   MapSeq(rawPolls, LAMBDA p : createSourceRef(p.id, p.pollster, "poll",
                                                  "polling_evidence")))
        preLabelled == SelectSeq(rawMedia, LAMBDA m : m.respect_id # <<>>)
        mediaToClassify == SelectSeq(rawMedia, LAMBDA m : m.respect_id = <<>>)
        classified == MapSeq(preLabelled, LAMBDA m :
                          [ item_type |-> "media", subject_id |-> SUBJECT_ID, item_id |-> m.id,
                            respect_id |-> m.respect_id[1], confidence |-> Q(9, 10),
                            rationale |-> "Pre-labelled (curated)", extracted_phrases |-> <<>> ])
        l1 == [l EXCEPT !.newsResult = newsResult, !.rawMetrics = l.results.metrics.items,
                        !.sourcesIndex = index, !.rawMedia = rawMedia, !.rawPolls = rawPolls,
                        !.mediaToClassify = mediaToClassify, !.classified = classified]
    IN  IF mediaToClassify # <<>> /\ e.OPENAI_API_KEY
        THEN [c EXCEPT !.l = [l1 EXCEPT !.pc = "classify"]]
        ELSE AfterMediaClassified(
                 [c EXCEPT !.l = [l1 EXCEPT
                     !.classified = classified
                         \o MapSeq(mediaToClassify, LAMBDA m : classifyMediaItem(SUBJECT_ID, m)),
                     !.classifiedBy = IF mediaToClassify = <<>> THEN "none" ELSE "keyword"]], e)

\* lines 86-94: party stance overrides and the institutional sources
BeforeCollect(l) ==
    LET stance == extractPartyStance(l.positions, l.sourcesIndex)
    IN  [l EXCEPT !.overrides = stance.overrides,
                  !.sourcesIndex = SetSources(stance.index, institutionalRefs),
                  !.pc = "collect"]

\* how many refreshes are started in one behaviour
MaxRefreshes == 2

\* how many services are unreachable at once
MaxDown == 2

RefreshesStarted == LET RECURSIVE Sum(_)
                        Sum(ps) == IF ps = {} THEN 0
                                   ELSE LET p == CHOOSE x \in ps : TRUE
                                        IN  rf[p].round + Sum(ps \ {p})
                    IN  Sum(Procs)

\* the outcome of one stretch becomes the next state
Commit(p, c) ==
    /\ rf' = [rf EXCEPT ![p] = c.l]
    /\ store' = c.st
    /\ idCounter' = c.n
    /\ log' = c.lg
    /\ UNCHANGED <<env, down, oracle, lastCall>>
    /\ UNCHANGED domVars

Here(p) == Ctx(rf[p], store, idCounter, log)

\* the route calls refresh_small_boats with the DRCM data it loaded
StartRefresh(p) ==
    /\ rf[p].pc \in {"idle", "done", "failed"}
    /\ RefreshesStarted < MaxRefreshes
    /\ Commit(p, [Here(p) EXCEPT !.l = [IdleLocals EXCEPT !.pc = "ingest",
                                                          !.positions = DRCM_POSITIONS,
                                                          !.round = rf[p].round + 1]])

\* await ingestPartyDocs() resolves
IngestPartyDocs(p) ==
    /\ rf[p].pc = "ingest"
    /\ LET docs == ingestPartyDocs(down)
           l1 == [rf[p] EXCEPT !.sourcesIndex = SetSources(<<>>, docs.sources),
                               !.documentTextByParty = docs.documentTextByParty]
       IN  Commit(p, [Here(p) EXCEPT !.l =
               IF /\ env.OPENAI_API_KEY
                  /\ \E party \in Range(docs.documentTextByParty) : PlainTextLength(party) >= 300
               THEN [l1 EXCEPT !.pc = "extract"]
               ELSE BeforeCollect(l1)])

\* the awaits of runPriorityExtraction resolve or reject, party after party
RunPriorityExtraction(p) ==
    /\ rf[p].pc = "extract"
    /\ Commit(p, [Here(p) EXCEPT !.l =
           BeforeCollect([rf[p] EXCEPT !.positions =
               ExtractAll(rf[p].documentTextByParty, rf[p].positions, down)])])

\* the merge of the API results of lines 116-134
ApiMerged(results) ==
    [ items |-> MergeByKey(<<>>, results.newsApi.items \o results.guardian.items
                                 \o results.gnews.items),
      sources |-> results.newsApi.sources \o results.guardian.sources \o results.gnews.sources ]

\* a plausible slip: a configured key alone decides for the API path
CollectParallelKeyOnly(p) ==
    /\ rf[p].pc = "collect"
    /\ LET results == [ newsApi |-> collectNewsFromApi(env, down),
                        guardian |-> collectGuardianFromApi(env, down),
                        gnews |-> collectGNewsFromApi(env, down),
                        metrics |-> collectRealityMetrics(down) ]
           useAnyApi == env.NEWS_API_KEY \/ env.GUARDIAN_API_KEY \/ env.GNEWS_API_KEY
           l1 == [rf[p] EXCEPT !.results = results]
       IN  IF useAnyApi
           THEN Commit(p, AfterNews([Here(p) EXCEPT !.l = [l1 EXCEPT !.mediaSource = "news_api"]],
                                    env, ApiMerged(results)))
           ELSE Commit(p, [Here(p) EXCEPT !.l = [l1 EXCEPT !.pc = "rss"]])

\* the stretch from the resolution of Promise.all([...]) to the next await
\* or to the end of the handler
AfterCollectParallel(p) ==
    LET results == [ newsApi |-> collectNewsFromApi(env, down),
                     guardian |-> collectGuardianFromApi(env, down),
                     gnews |-> collectGNewsFromApi(env, down),
                     metrics |-> collectRealityMetrics(down) ]
        useAnyApi == env.NEWS_API_KEY \/ env.GUARDIAN_API_KEY \/ env.GNEWS_API_KEY
        l1 == [rf[p] EXCEPT !.results = results,
                            !.mediaWindowDays = IF useAnyApi THEN MEDIA_WINDOW_DAYS_NEWS_API
                                                ELSE MEDIA_WINDOW_DAYS]
    IN  IF useAnyApi /\ (results.newsApi.items # <<>> \/ results.guardian.items # <<>>
                         \/ results.gnews.items # <<>>)
        THEN AfterNews([Here(p) EXCEPT !.l = [l1 EXCEPT !.mediaSource = "news_api"]],
                       env, ApiMerged(results))
        ELSE [Here(p) EXCEPT !.l = [l1 EXCEPT !.pc = "rss"]]

\* await Promise.all([...]) resolves
CollectParallel(p) ==
    /\ rf[p].pc = "collect"
    /\ Commit(p, AfterCollectParallel(p))

\* the stretch that follows the resolution of collectNewsHeadlines(...)
AfterCollectNewsHeadlines(p) ==
    AfterNews([Here(p) EXCEPT !.l = [rf[p] EXCEPT !.rssCalled = TRUE,
                                            !.mediaWindowDays = MEDIA_WINDOW_DAYS]],
              env, collectNewsHeadlines(MEDIA_WINDOW_DAYS, down))

\* await collectNewsHeadlines(...) resolves
CollectNewsHeadlines(p) ==
    /\ rf[p].pc = "rss"
    /\ Commit(p, AfterCollectNewsHeadlines(p))

\* the stretch that follows the settling of classifyMediaWithLLM(...)
AfterClassifyMediaWithLLM(p) ==
    LET l == rf[p]
        llm == classifyMediaWithLLM(SUBJECT_ID, l.mediaToClassify, oracle, down)
    IN  AfterMediaClassified([Here(p) EXCEPT !.l =
            IF llm.throws
            THEN [l EXCEPT !.classified = l.classified
                               \o MapSeq(l.mediaToClassify,
                                         LAMBDA m : classifyMediaItem(SUBJECT_ID, m)),
                           !.classifiedBy = "keyword"]
            ELSE [l EXCEPT !.classified = l.classified \o llm.classified,
                           !.classifiedBy = "oracle"]], env)

\* await classifyMediaWithLLM(...) resolves or rejects
ClassifyMediaWithLLM(p) ==
    /\ rf[p].pc = "classify"
    /\ Commit(p, AfterClassifyMediaWithLLM(p))

\* the stretch that follows the last generateSummaryOfFindings
AfterGenerateSummaries(p) ==
    FinishRefresh([Here(p) EXCEPT !.l = [rf[p] EXCEPT !.summaries =
        IF OPENAI \in down THEN {}
        ELSE {pos.actor_id : pos \in Range(rf[p].positions)}]])

\* the awaits of generateSummaryOfFindings resolve or reject, position after position
GenerateSummaries(p) ==
    /\ rf[p].pc = "summaries"
    /\ Commit(p, AfterGenerateSummaries(p))

RefreshStep(p) ==
    \/ StartRefresh(p)
    \/ IngestPartyDocs(p)
    \/ RunPriorityExtraction(p)
    \/ CollectParallel(p)
    \/ CollectNewsHeadlines(p)
    \/ ClassifyMediaWithLLM(p)
    \/ GenerateSummaries(p)

\* no refresh running, nothing configured
RefreshIdle ==
    /\ env = [NEWS_API_KEY |-> FALSE, GUARDIAN_API_KEY |-> FALSE, GNEWS_API_KEY |-> FALSE,
              OPENAI_API_KEY |-> FALSE]
    /\ down = {}
    /\ oracle = "ok"
    /\ rf = [p \in Procs |-> IdleLocals]

Environments ==
    { [NEWS_API_KEY |-> a, GUARDIAN_API_KEY |-> b, GNEWS_API_KEY |-> c, OPENAI_API_KEY |-> d] :
          a \in BOOLEAN, b \in BOOLEAN, c \in BOOLEAN, d \in BOOLEAN }

\* the services a refresh can call under the configured keys
UsedServices(e) ==
    {GOV_SMALL_BOATS_URL}
    \cup {f.url : f \in Range(RssFeeds)}
    \cup {d.canonical_url : d \in Range(PARTY_DOCS)}
    \cup (IF e.NEWS_API_KEY THEN {NEWS_API_BASE} ELSE {})
    \cup (IF e.GUARDIAN_API_KEY THEN {GUARDIAN_API_BASE} ELSE {})
    \cup (IF e.GNEWS_API_KEY THEN {GNEWS_BASE} ELSE {})
    \cup (IF e.OPENAI_API_KEY THEN {OPENAI} ELSE {})

\* the store after the direct calls that filed the given payloads
RECURSIVE Seeded(_)
Seeded(calls) ==
    IF calls = <<>> THEN Ctx(IdleLocals, [f \in Files |-> <<>>], 0, <<>>)
    ELSE CtxAppend(Seeded(Front(calls)), calls[Len(calls)].file, calls[Len(calls)].source,
                   calls[Len(calls)].payload)

SeedCalls ==
    { <<>>,
      << [file |-> "raw_media", source |-> "curated", payload |-> Curated1],
         [file |-> "raw_polls", source |-> "manual", payload |-> PollBase] >>,
      << [file |-> "raw_media", source |-> "curated", payload |-> Curated2],
         [file |-> "raw_media", source |-> "curated", payload |-> Curated1],
         [file |-> "raw_polls", source |-> "manual", payload |-> PollHumane],
         [file |-> "raw_polls", source |-> "manual", payload |-> PollBase] >> }

RefreshInit ==
    /\ env \in Environments
    /\ down \in {d \in SUBSET UsedServices(env) : Cardinality(d) <= MaxDown}
    /\ oracle \in IF env.OPENAI_API_KEY THEN OracleReplies ELSE {"ok"}
    /\ rf = [p \in Procs |-> IdleLocals]
    /\ \E calls \in SeedCalls :
          /\ store = Seeded(calls).st
          /\ idCounter = Seeded(calls).n
          /\ log = Seeded(calls).lg
    /\ lastCall = [op |-> "none", subject |-> "", arg |-> <<>>, result |-> "none",
                   value |-> <<>>, before |-> [f \in Files |-> <<>>]]

RefreshNext == RefreshStep("r1")

InitRefresh == DomIdle /\ RefreshInit

SpecRefresh == InitRefresh /\ [][RefreshNext]_vars

\* poll imports by the three routes, followed by a refresh
PollsInit ==
    /\ StoreInit
    /\ env \in {e \in Environments :
                    ~e.NEWS_API_KEY /\ ~e.GUARDIAN_API_KEY /\ ~e.GNEWS_API_KEY}
    /\ down = {}
    /\ oracle = "ok"
    /\ rf = [p \in Procs |-> IdleLocals]

\* how many polls are filed before the refresh
MaxPolls == 2

PollsNext ==
    \/ /\ RefreshesStarted = 0
       /\ Len(store["raw_polls"]) < MaxPolls
       /\ (AppendRawPoll \/ ImportPolls \/ EditRawPolls)
    \/ RefreshStep("r1")

InitPolls == DomIdle /\ PollsInit

SpecPolls == InitPolls /\ [][PollsNext]_vars

\* two refreshes of the same subject in one process: each runs from await to
\* await, and a stretch of either may run between two stretches of the other
ConcurrentInit ==
    /\ env \in {e \in Environments : ~e.NEWS_API_KEY /\ ~e.GUARDIAN_API_KEY}
    /\ down = {}
    /\ oracle = "ok"
    /\ rf = [p \in Procs |-> IdleLocals]
    /\ \E calls \in SeedCalls :
          /\ store = Seeded(calls).st
          /\ idCounter = Seeded(calls).n
          /\ log = Seeded(calls).lg
    /\ lastCall = [op |-> "none", subject |-> "", arg |-> <<>>, result |-> "none",
                   value |-> <<>>, before |-> [f \in Files |-> <<>>]]

ConcurrentNext == \E p \in Procs : RefreshStep(p)

InitConcurrent == DomIdle /\ ConcurrentInit

SpecConcurrent == InitConcurrent /\ [][ConcurrentNext]_vars

(***************************************************************************)
(* The route /api/refresh (src/app/api/refresh/route.ts): GET reads the    *)
(* subject parameter and answers 400 for any subject but small_boats; POST *)
(* and an accepted GET call refresh_small_boats.                           *)
(***************************************************************************)
\* searchParams.get("subject"): absent, or the value given
SubjectParams == {<<>>} \cup {<<s>> : s \in Subjects}

\* searchParams.get("subject") ?? "small_boats"
RequestedSubject(param) == IF param = <<>> THEN "small_boats" ELSE param[1]

\* a plausible slip: the subject parameter is not looked at
SubjectSupportedAlways(subject) == TRUE

\* route.ts line 14
SubjectSupported(subject) == subject = "small_boats"

RouteAnswer(subject, result, value) ==
    [ op |-> "GET /api/refresh", subject |-> subject, arg |-> <<>>, result |-> result,
      value |-> value, before |-> store ]

\* GET /api/refresh?subject=...
RouteGet(p, param) ==
    IF ~SubjectSupported(RequestedSubject(param))
    THEN /\ lastCall' = RouteAnswer(RequestedSubject(param), "400",
                                    <<"Only subject=small_boats supported">>)
         /\ UNCHANGED <<store, idCounter, log, env, down, oracle, rf>>
         /\ UNCHANGED domVars
    ELSE /\ rf[p].pc \in {"idle", "done"}
         /\ RefreshesStarted < MaxRefreshes
         /\ rf' = [rf EXCEPT ![p] = [IdleLocals EXCEPT !.pc = "ingest",
                                                       !.positions = DRCM_POSITIONS,
                                                       !.round = rf[p].round + 1]]
         /\ lastCall' = RouteAnswer(RequestedSubject(param), "running", <<>>)
         /\ UNCHANGED <<store, idCounter, log, env, down, oracle>>
         /\ UNCHANGED domVars

RouteNext ==
    \/ \E param \in SubjectParams : RouteGet("r1", param)
    \/ RefreshStep("r1")

InitRoute == DomIdle /\ ConcurrentInit

SpecRoute == InitRoute /\ [][RouteNext]_vars

(***************************************************************************)
(* Refreshes whose storage writes can fail.  appendJson ends in             *)
(* fs.writeFileSync (storage.ts 51-55); when it throws, the append function *)
(* and refresh_small_boats throw with it, runRefresh answers 500            *)
(* (route.ts), and the files keep what the earlier appends wrote.  The      *)
(* failing write is taken to leave its file as it was.                      *)
(***************************************************************************)
\* the stretch the refresh runs next
NextStretch(p) ==
    CASE rf[p].pc = "collect" -> AfterCollectParallel(p)
      [] rf[p].pc = "rss" -> AfterCollectNewsHeadlines(p)
      [] rf[p].pc = "classify" -> AfterClassifyMediaWithLLM(p)
      [] rf[p].pc = "summaries" -> AfterGenerateSummaries(p)

\* the appends a stretch makes, in order
WritesOf(c) == SubSeq(c.lg, Len(log) + 1, Len(c.lg))

RECURSIVE StoreAfter(_, _)
StoreAfter(st, writes) ==
    IF writes = <<>> THEN st
    ELSE appendJson(StoreAfter(st, Front(writes)), writes[Len(writes)].file, writes[Len(writes)].record)

\* the appends `done` succeed, the next one throws: the refresh is over
FailAfter(p, done) ==
    /\ store' = StoreAfter(store, done)
    /\ idCounter' = idCounter + Len(done) + 1
    /\ log' = log \o done
    /\ rf' = [rf EXCEPT ![p] = [rf[p] EXCEPT !.pc = "failed"]]
    /\ lastCall' = RouteAnswer("small_boats", "500", <<"write failed">>)
    /\ UNCHANGED <<env, down, oracle>>
    /\ UNCHANGED domVars

FailWithin(p, writes) == \E k \in 0..(Len(writes) - 1) : FailAfter(p, Take(writes, k))

\* a storage write of the next stretch throws
WriteFails(p) ==
    /\ rf[p].pc \in {"collect", "rss", "classify", "summaries"}
    /\ FailWithin(p, WritesOf(NextStretch(p)))

\* no news API key; the store is empty
FailingInit ==
    /\ StoreInit
    /\ env \in {e \in Environments : ~e.NEWS_API_KEY /\ ~e.GUARDIAN_API_KEY /\ ~e.GNEWS_API_KEY}
    /\ down \in {{}, {OPENAI}}
    /\ oracle = "ok"
    /\ rf = [p \in Procs |-> IdleLocals]

FailingNext == RefreshStep("r1") \/ WriteFails("r1")

InitFailing == DomIdle /\ FailingInit

SpecFailing == InitFailing /\ [][FailingNext]_vars

(***************************************************************************)
(* Refreshes without an oracle key: every combination of news API keys,     *)
(* with any of the configured news APIs out of reach.                       *)
(***************************************************************************)
CollectInit ==
    /\ StoreInit
    /\ env \in {e \in Environments : ~e.OPENAI_API_KEY}
    /\ down \in SUBSET (UsedServices(env) \cap {NEWS_API_BASE, GUARDIAN_API_BASE, GNEWS_BASE})
    /\ oracle = "ok"
    /\ rf = [p \in Procs |-> IdleLocals]

CollectNext ==
    \/ StartRefresh("r1")
    \/ IngestPartyDocs("r1")
    \/ CollectParallel("r1")
    \/ CollectNewsHeadlines("r1")

InitCollect == DomIdle /\ CollectInit

SpecCollect == InitCollect /\ [][CollectNext]_vars

InitStorage == DomIdle /\ StoreInit /\ RefreshIdle

SpecStorage == InitStorage /\ [][StorageNext]_vars

InitDominance == DomInit /\ StoreInit /\ RefreshIdle

SpecDominance == InitDominance /\ [][DomNext]_vars

(***************************************************************************)
(* The keyword classifier called on its own: one call of classifyMediaItem,*)
(* classifyPollItem or classifyMetricItem on a drawn item.                 *)
(***************************************************************************)
Headlines ==
    {"Small boats crossings hit record", "Charity warns of deaths at sea",
     "Court blocks deportation flight", "Minister visits school", "Minister Visits  School",
     "Asylum backlog grows", "Migrants rescued off Dover"}

OptionTexts ==
    {"Support tougher measures", "Oppose", "More humane approach", "Tougher measures",
     "Don't know", "Follow legal process"}

MediaInputs ==
    { [ id |-> "news_1", outlet |-> "BBC", title |-> t, lede |-> l, url |-> NoUrl,
        days_ago |-> 1, respect_id |-> <<>> ] :
          t \in Headlines, l \in {<<>>} \cup {<<x>> : x \in Headlines} }

PollInputs ==
    { [PollBase EXCEPT !.options = o] :
          o \in {<<a, b>> : a, b \in OptionTexts} \ {<<a, a>> : a \in OptionTexts} }

MetricInputs ==
    UNION { Range(MetricItems(ref)) : ref \in {"metric_gov_small_boats", "metric_fallback_reality"} }

Calls(fn, inputs) == {[fn |-> fn, arg |-> <<x>>, result |-> <<>>] : x \in inputs}

Pending(fn) == call.fn = fn /\ call.result = <<>>

\* the call returns `value`; nothing else changes
Return(value) ==
    /\ call' = [call EXCEPT !.result = <<value>>]
    /\ UNCHANGED <<dsubject, dmedia, dpublic, dsnapshot, dpc>>
    /\ UNCHANGED storeVars
    /\ UNCHANGED refreshVars

ClassifyInit ==
    /\ dsubject = "small_boats"
    /\ dmedia = MediaAggOf(<<>>)
    /\ dpublic = PublicAggOf(<<>>)
    /\ dsnapshot = Null
    /\ dpc = "idle"
    /\ call \in Calls("classifyMediaItem", MediaInputs)
                  \cup Calls("classifyPollItem", PollInputs)
                  \cup Calls("classifyMetricItem", MetricInputs)

ClassifyMediaItem ==
    Pending("classifyMediaItem") /\ Return(classifyMediaItem(SUBJECT_ID, call.arg[1]))

ClassifyPollItem ==
    Pending("classifyPollItem") /\ Return(classifyPollItem(SUBJECT_ID, call.arg[1]))

ClassifyMetricItem ==
    Pending("classifyMetricItem") /\ Return(classifyMetricItem(SUBJECT_ID, call.arg[1]))

ClassifyNext == ClassifyMediaItem \/ ClassifyPollItem \/ ClassifyMetricItem

InitClassify == ClassifyInit /\ StoreInit /\ RefreshIdle

SpecClassify == InitClassify /\ [][ClassifyNext]_vars

(***************************************************************************)
(* The media path of a refresh on its own: the stored media and the items  *)
(* a connector returned are merged (refresh.ts 161-189), the merged items  *)
(* are classified (205-233) and aggregate_media_framing is called.         *)
(***************************************************************************)
\* how many stored media records and how many fetched items a call is given
MaxStored == 2

MaxFetched == 2

Curated3 ==
    [ id |-> "curated_3", outlet |-> "BBC", title |-> "Minister visits school", lede |-> <<>>,
      url |-> NoUrl, days_ago |-> 1, respect_id |-> <<>> ]

\* a second curated record for the story of Curated1, labelled differently
Curated4 ==
    [ id |-> "curated_4", outlet |-> "Daily Mail", title |-> "Small boats crossings hit record",
      lede |-> <<>>, url |-> "https://news.example/b", days_ago |-> 1,
      respect_id |-> <<"security_border">> ]

StoredPool == {Curated1, Curated2, Curated3, Curated4}

FetchedPool ==
    { RawMediaOf("news_news_api_0", NewsApiArticles[1]),
      RawMediaOf("news_news_api_1", NewsApiArticles[2]),
      RawMediaOf("news_guardian_api_0", GuardianArticles[1]),
      RawMediaOf("news_gnews_1", GNewsArticles[2]) }

SeqsUpTo(S, n) == UNION {[1..k -> S] : k \in 0..n}

\* the payloads of raw_media.json, in file order; the same payload can be stored twice
StoredLists == SeqsUpTo(StoredPool, MaxStored)

\* the items of a connector result: a connector keeps one item per key
FetchedLists ==
    {f \in SeqsUpTo(FetchedPool, MaxFetched) :
        \A i, j \in 1..Len(f) : i # j => mediaKey(f[i]) # mediaKey(f[j])}

\* refresh.ts 161-189: rawMedia
mergedRawMedia(storedMedia, items) == MergeByKey(MergeByKey(<<>>, storedMedia), items)

\* refresh.ts 205-233: on the keyword path or with the oracle answering properly
classifyMerged(rawMedia, by) ==
    LET preLabelled == SelectSeq(rawMedia, LAMBDA m : m.respect_id # <<>>)
        mediaToClassify == SelectSeq(rawMedia, LAMBDA m : m.respect_id = <<>>)
    IN  MapSeq(preLabelled, LAMBDA m :
            [ item_type |-> "media", subject_id |-> SUBJECT_ID, item_id |-> m.id,
              respect_id |-> m.respect_id[1], confidence |-> Q(9, 10),
              rationale |-> "Pre-labelled (curated)", extracted_phrases |-> <<>> ])
        \o (IF by = "oracle"
            THEN classifyMediaWithLLM(SUBJECT_ID, mediaToClassify, "ok", {}).classified
            ELSE MapSeq(mediaToClassify, LAMBDA m : classifyMediaItem(SUBJECT_ID, m)))

MediaPathOf(rawMedia, classified) ==
    [ rawMedia |-> rawMedia, classified |-> classified,
      mediaAgg |-> aggregate_media_framing(SUBJECT_ID, classified, rawMedia, MEDIA_WINDOW_DAYS) ]

MediaPath(storedMedia, items, by) ==
    MediaPathOf(mergedRawMedia(storedMedia, items),
                classifyMerged(mergedRawMedia(storedMedia, items), by))

MediaInit ==
    /\ dsubject = "small_boats"
    /\ dmedia = MediaAggOf(<<>>)
    /\ dpublic = PublicAggOf(<<>>)
    /\ dsnapshot = Null
    /\ dpc = "idle"
    /\ call \in {[fn |-> "media_path", arg |-> <<s, f, by>>, result |-> <<>>] :
                    s \in StoredLists, f \in FetchedLists, by \in {"keyword", "oracle"}}

MergeAndAggregateMedia ==
    Pending("media_path") /\ Return(MediaPath(call.arg[1], call.arg[2], call.arg[3]))

MediaNext == MergeAndAggregateMedia

InitMedia == MediaInit /\ StoreInit /\ RefreshIdle

SpecMedia == InitMedia /\ [][MediaNext]_vars

(***************************************************************************)
(* The polling path of a refresh on its own: the polls that passed the     *)
(* gate are classified (refresh.ts 241) and aggregate_public_polling is    *)
(* called; byRespect is its local map before the shares are normalised.    *)
(***************************************************************************)
PollLists ==
    {<<>>} \cup {<<p>> : p \in PollInputs \cup {PollHumane}}
           \cup {<<p, PollHumane>> : p \in PollInputs}

PollingPath(rawPolls) ==
    LET classified == MapSeq(rawPolls, LAMBDA p : classifyPollItem(SUBJECT_ID, p))
    IN  [ rawPolls |-> rawPolls, classified |-> classified,
          byRespect |-> PollWeightByRespect(classified, rawPolls),
          publicAgg |-> aggregate_public_polling(SUBJECT_ID, classified, rawPolls,
                                                 POLL_WINDOW_MONTHS) ]

PollingInit ==
    /\ dsubject = "small_boats"
    /\ dmedia = MediaAggOf(<<>>)
    /\ dpublic = PublicAggOf(<<>>)
    /\ dsnapshot = Null
    /\ dpc = "idle"
    /\ call \in Calls("polling_path", PollLists)

AggregatePublicPolling == Pending("polling_path") /\ Return(PollingPath(call.arg[1]))

PollingNext == AggregatePublicPolling

InitPolling == PollingInit /\ StoreInit /\ RefreshIdle

SpecPolling == InitPolling /\ [][PollingNext]_vars

\* ---------------------------------------------------------------------
\* The passage extractor (src/lib/pipeline/passage-extractor.ts).  A text
\* is a sequence of characters; offsets count from 0 as in the source.
\* ---------------------------------------------------------------------

\* the trigger phrases of the subject "migration", in table order
MigrationTriggers ==
    << <<"m", "i", "g", "r", "a", "t", "i", "o", "n">>,
       <<"i", "m", "m", "i", "g", "r", "a", "t", "i", "o", "n">>,
       <<"i", "m", "m", "i", "g", "r", "a", "t", "e">>,
       <<"m", "i", "g", "r", "a", "n", "t">>,
       <<"m", "i", "g", "r", "a", "n", "t", "s">>,
       <<"b", "o", "r", "d", "e", "r">>,
       <<"b", "o", "r", "d", "e", "r", "s">>,
       <<"a", "s", "y", "l", "u", "m">>,
       <<"r", "e", "f", "u", "g", "e", "e">>,
       <<"r", "e", "f", "u", "g", "e", "e", "s">>,
       <<"v", "i", "s", "a">>,
       <<"v", "i", "s", "a", "s">>,
       <<"e", "n", "t", "r", "y">>,
       <<"s", "e", "t", "t", "l", "e", "m", "e", "n", "t">>,
       <<"c", "i", "t", "i", "z", "e", "n", "s", "h", "i", "p">>,
       <<"c", "h", "a", "n", "n", "e", "l", " ", "c", "r", "o", "s", "s", "i", "n", "g">>,
       <<"c", "h", "a", "n", "n", "e", "l", " ", "c", "r", "o", "s", "s", "i", "n", "g", "s">>,
       <<"s", "m", "a", "l", "l", " ", "b", "o", "a", "t">>,
       <<"s", "m", "a", "l", "l", " ", "b", "o", "a", "t", "s">>,
       <<"d", "i", "n", "g", "h", "y">>,
       <<"b", "o", "a", "t", "s", " ", "c", "r", "o", "s", "s", "i", "n", "g">>,
       <<"i", "l", "l", "e", "g", "a", "l", " ", "m", "i", "g", "r", "a", "t", "i", "o", "n">>,
       <<"l", "e", "g", "a", "l", " ", "m", "i", "g", "r", "a", "t", "i", "o", "n">>,
       <<"i", "r", "r", "e", "g", "u", "l", "a", "r", " ", "c", "r", "o", "s", "s", "i", "n", "g">>,
       <<"e", "n", "g", "l", "i", "s", "h", " ", "c", "h", "a", "n", "n", "e", "l">>,
       <<"c", "r", "o", "s", "s", "i", "n", "g", " ", "t", "h", "e", " ", "c", "h", "a", "n", "n", "e", "l">> >>

\* the trigger phrases of the subject "small_boats", in table order
SmallBoatsTriggers ==
    << <<"s", "m", "a", "l", "l", " ", "b", "o", "a", "t">>,
       <<"s", "m", "a", "l", "l", " ", "b", "o", "a", "t", "s">>,
       <<"c", "h", "a", "n", "n", "e", "l", " ", "c", "r", "o", "s", "s", "i", "n", "g">>,
       <<"c", "h", "a", "n", "n", "e", "l", " ", "c", "r", "o", "s", "s", "i", "n", "g", "s">>,
       <<"d", "i", "n", "g", "h", "y">>,
       <<"d", "i", "n", "g", "h", "i", "e", "s">>,
       <<"b", "o", "a", "t", "s", " ", "c", "r", "o", "s", "s", "i", "n", "g">>,
       <<"e", "n", "g", "l", "i", "s", "h", " ", "c", "h", "a", "n", "n", "e", "l">>,
       <<"c", "r", "o", "s", "s", "i", "n", "g", " ", "t", "h", "e", " ", "c", "h", "a", "n", "n", "e", "l">>,
       <<"i", "r", "r", "e", "g", "u", "l", "a", "r", " ", "c", "r", "o", "s", "s", "i", "n", "g">>,
       <<"i", "l", "l", "e", "g", "a", "l", " ", "m", "i", "g", "r", "a", "t", "i", "o", "n">>,
       <<"m", "i", "g", "r", "a", "n", "t">>,
       <<"m", "i", "g", "r", "a", "n", "t", "s">>,
       <<"a", "s", "y", "l", "u", "m">>,
       <<"r", "e", "f", "u", "g", "e", "e">> >>

SUBJECT_TRIGGER_PHRASES == [migration |-> MigrationTriggers, small_boats |-> SmallBoatsTriggers]

\* sentenceWindow of DEFAULT_OPTIONS, used when the caller gives none
DefaultSentenceWindow == 2

\* String.prototype.toLowerCase on the letters the texts use
LowerChar(c) ==
    CASE c = "A" -> "a"
      [] c = "T" -> "t"
      [] c = "V" -> "v"
      [] OTHER -> c

LowerChars(s) == [i \in 1..Len(s) |-> LowerChar(s[i])]

IsSpace(c) == c \in {" ", "\n"}

\* String.prototype.trim
RECURSIVE TrimStart(_)
TrimStart(s) == IF s # <<>> /\ IsSpace(s[1]) THEN TrimStart(Tail(s)) ELSE s

RECURSIVE TrimEnd(_)
TrimEnd(s) == IF s # <<>> /\ IsSpace(s[Len(s)]) THEN TrimEnd(SubSeq(s, 1, Len(s) - 1)) ELSE s

Trim(s) == TrimEnd(TrimStart(s))

\* String.prototype.slice(from, to) with 0 <= from <= to <= length
SliceChars(text, from, to) == SubSeq(text, from + 1, to)

\* String.prototype.indexOf(pat, pos): the first offset >= pos where pat
\* starts, or -1
RECURSIVE IndexOfFrom(_, _, _)
IndexOfFrom(text, pat, pos) ==
    IF pos + Len(pat) > Len(text) THEN -1
    ELSE IF text[pos + 1] = pat[1] /\ SubSeq(text, pos + 1, pos + Len(pat)) = pat THEN pos
    ELSE IndexOfFrom(text, pat, pos + 1)

\* the end of the sentence that starts at pos: just after the next ". " or
\* newline, or the end of the text
SentenceEnd(text, pos) ==
    LET nextPeriod == IndexOfFrom(text, <<".", " ">>, pos)
        nextNewline == IndexOfFrom(text, <<"\n">>, pos)
        e1 == IF nextPeriod # -1 /\ nextPeriod + 1 < Len(text) THEN nextPeriod + 1 ELSE Len(text)
    IN  IF nextNewline # -1 /\ nextNewline + 1 < e1 THEN nextNewline + 1 ELSE e1

\* one segment, or none when its trimmed text is empty
SegmentAt(text, start, end) ==
    IF Len(Trim(SliceChars(text, start, end))) > 0
    THEN << [text |-> Trim(SliceChars(text, start, end)), start |-> start, end |-> end] >>
    ELSE << >>

RECURSIVE SentencesFrom(_, _)

\* the sentence from pos to end and those after it
SentencesWith(text, pos, end) == SegmentAt(text, pos, end) \o SentencesFrom(text, end)

SentencesFrom(text, pos) ==
    IF pos >= Len(text) THEN << >> ELSE SentencesWith(text, pos, SentenceEnd(text, pos))

getSentences(text) == SentencesFrom(text, 0)

\* where the paragraph that starts at pos ends, and where the next starts
ParagraphEnd(text, pos) ==
    IF IndexOfFrom(text, <<"\n", "\n">>, pos) = -1 THEN Len(text) ELSE IndexOfFrom(text, <<"\n", "\n">>, pos)

ParagraphNext(text, pos) ==
    IF IndexOfFrom(text, <<"\n", "\n">>, pos) = -1 THEN Len(text) ELSE IndexOfFrom(text, <<"\n", "\n">>, pos) + 2

RECURSIVE ParagraphsFrom(_, _)
ParagraphsFrom(text, pos) ==
    IF pos >= Len(text) THEN << >>
    ELSE SegmentAt(text, pos, ParagraphEnd(text, pos)) \o ParagraphsFrom(text, ParagraphNext(text, pos))

getParagraphs(text) == ParagraphsFrom(text, 0)

indexOfPhrase(text, phrase) == IndexOfFrom(LowerChars(text), LowerChars(phrase), 0)

\* the same, merging only ranges that share a character
RECURSIVE MergeSortedOverlapOnly(_, _)
MergeSortedOverlapOnly(merged, rest) ==
    IF rest = << >> THEN merged
    ELSE IF rest[1].start < merged[Len(merged)].end
    THEN MergeSortedOverlapOnly([merged EXCEPT ![Len(merged)].end = IF rest[1].end > @ THEN rest[1].end ELSE @], Tail(rest))
    ELSE MergeSortedOverlapOnly(Append(merged, rest[1]), Tail(rest))

\* the same, merging nothing
RECURSIVE MergeSortedNothing(_, _)
MergeSortedNothing(merged, rest) ==
    IF rest = << >> THEN merged ELSE MergeSortedNothing(Append(merged, rest[1]), Tail(rest))

\* the loop of mergeRanges over the sorted ranges
RECURSIVE MergeSorted(_, _)
MergeSorted(merged, rest) ==
    IF rest = << >> THEN merged
    ELSE IF rest[1].start <= merged[Len(merged)].end + 1
    THEN MergeSorted([merged EXCEPT ![Len(merged)].end = IF rest[1].end > @ THEN rest[1].end ELSE @], Tail(rest))
    ELSE MergeSorted(Append(merged, rest[1]), Tail(rest))

\* Array.prototype.sort by start: stable insertion
RECURSIVE InsertByStart(_, _)
InsertByStart(sorted, r) ==
    IF sorted = << >> THEN << r >>
    ELSE IF sorted[Len(sorted)].start <= r.start THEN Append(sorted, r)
    ELSE Append(InsertByStart(SubSeq(sorted, 1, Len(sorted) - 1), r), sorted[Len(sorted)])

RECURSIVE SortByStart(_)
SortByStart(ranges) ==
    IF ranges = << >> THEN << >>
    ELSE InsertByStart(SortByStart(SubSeq(ranges, 1, Len(ranges) - 1)), ranges[Len(ranges)])

mergeRanges(ranges) ==
    IF Len(ranges) = 0 THEN << >>
    ELSE MergeSorted(<< SortByStart(ranges)[1] >>, Tail(SortByStart(ranges)))

TriggersOf(subjectId) ==
    IF subjectId \in DOMAIN SUBJECT_TRIGGER_PHRASES THEN SUBJECT_TRIGGER_PHRASES[subjectId]
    ELSE SUBJECT_TRIGGER_PHRASES["migration"]

\* the position of the first trigger, from the k-th on, that a segment
\* contains; 0 when it contains none
RECURSIVE FirstMatchFrom(_, _, _)
FirstMatchFrom(segText, triggers, k) ==
    IF k > Len(triggers) THEN 0
    ELSE IF indexOfPhrase(segText, triggers[k]) # -1 THEN k
    ELSE FirstMatchFrom(segText, triggers, k + 1)

\* the window of segments around segment i (counted from 1 here)
HitRange(segments, i, window, trigger) ==
    [ start |-> segments[IF i - window < 1 THEN 1 ELSE i - window].start,
      end |-> segments[IF i + window > Len(segments) THEN Len(segments) ELSE i + window].end,
      trigger |-> trigger ]

\* the range pushed for segment i, whose first trigger is the k-th
HitOf(segments, i, window, triggers, k) ==
    IF k = 0 THEN << >> ELSE << HitRange(segments, i, window, triggers[k]) >>

RECURSIVE HitRangesFrom(_, _, _, _)
HitRangesFrom(segments, i, window, triggers) ==
    IF i > Len(segments) THEN << >>
    ELSE HitOf(segments, i, window, triggers, FirstMatchFrom(segments[i].text, triggers, 1))
             \o HitRangesFrom(segments, i + 1, window, triggers)

BareRanges(hitRanges) == [i \in 1..Len(hitRanges) |-> [start |-> hitRanges[i].start, end |-> hitRanges[i].end]]

\* the trigger reported for a merged range
TriggerOfRange(range, hitRanges, triggers) ==
    LET found == {k \in 1..Len(hitRanges) : \/ hitRanges[k].start = range.start
                                             \/ (hitRanges[k].end = range.end /\ hitRanges[k].start <= range.start)}
    IN  IF found = {} THEN triggers[1]
        ELSE hitRanges[CHOOSE k \in found : \A m \in found : k <= m].trigger

RECURSIVE PassagesOf(_, _, _, _, _)
PassagesOf(fullText, subjectId, merged, hitRanges, triggers) ==
    IF merged = << >> THEN << >>
    ELSE (IF Len(Trim(SliceChars(fullText, merged[1].start, merged[1].end))) > 0
          THEN << [ start |-> merged[1].start,
                    end |-> merged[1].end,
                    text |-> Trim(SliceChars(fullText, merged[1].start, merged[1].end)),
                    triggerMatched |-> TriggerOfRange(merged[1], hitRanges, triggers),
                    subjectId |-> subjectId ] >>
          ELSE << >>) \o PassagesOf(fullText, subjectId, Tail(merged), hitRanges, triggers)

\* the options with the defaults filled in
OptsOf(options) ==
    [ sentenceWindow |-> IF "sentenceWindow" \in DOMAIN options THEN options.sentenceWindow ELSE DefaultSentenceWindow,
      useParagraphs |-> IF "useParagraphs" \in DOMAIN options THEN options.useParagraphs ELSE FALSE ]

SegmentsOf(fullText, opts) == IF opts.useParagraphs THEN getParagraphs(fullText) ELSE getSentences(fullText)

PassagesFromHits(fullText, subjectId, hitRanges, triggers) ==
    PassagesOf(fullText, subjectId, mergeRanges(BareRanges(hitRanges)), hitRanges, triggers)

extractPassagesForSubject(fullText, subjectId, options) ==
    IF Len(TriggersOf(subjectId)) = 0 THEN << >>
    ELSE PassagesFromHits(fullText, subjectId,
                          HitRangesFrom(SegmentsOf(fullText, OptsOf(options)), 1, OptsOf(options).sentenceWindow, TriggersOf(subjectId)),
                          TriggersOf(subjectId))

\* ---------------------------------------------------------------------
\* The extractor called once on a text built from a few pieces.
\* ---------------------------------------------------------------------

MaxPieces == 5

\* a sentence with a trigger of both subjects, one with none, one with a
\* trigger of "migration" only that ends its line, an empty line, a full stop
TextPieces ==
    { <<"A", "s", "y", "l", "u", "m", ".", " ">>,
      <<"T", "a", "x", ".", " ">>,
      <<"V", "i", "s", "a", "s", ".", "\n">>,
      <<"\n">>,
      <<".", " ">> }

RECURSIVE Concat(_)
Concat(ps) == IF ps = << >> THEN << >> ELSE ps[1] \o Concat(Tail(ps))

Texts == {Concat(ps) : ps \in SeqsUpTo(TextPieces, MaxPieces)}

\* the subject and the options of a call: a field the caller leaves out
\* takes its default, a subject without triggers of its own those of
\* "migration"
ExtractorCalls ==
    { <<"small_boats", [sentenceWindow |-> 0]>>,
      <<"small_boats", [sentenceWindow |-> 1]>>,
      <<"small_boats", [useParagraphs |-> FALSE]>>,
      <<"housing", [sentenceWindow |-> 1]>>,
      <<"small_boats", [sentenceWindow |-> 1, useParagraphs |-> TRUE]>>,
      <<"housing", [useParagraphs |-> TRUE]>> }

ExtractorInputs == {<<t, c[1], c[2]>> : t \in Texts, c \in ExtractorCalls}

PassagesInit ==
    /\ dsubject = "small_boats"
    /\ dmedia = MediaAggOf(<<>>)
    /\ dpublic = PublicAggOf(<<>>)
    /\ dsnapshot = Null
    /\ dpc = "idle"
    /\ call \in {[fn |-> "extractPassagesForSubject", arg |-> a, result |-> << >>] : a \in ExtractorInputs}

ExtractPassages ==
    /\ Pending("extractPassagesForSubject")
    /\ Return(extractPassagesForSubject(call.arg[1], call.arg[2], call.arg[3]))

PassagesNext == ExtractPassages

InitPassages == PassagesInit /\ StoreInit /\ RefreshIdle

SpecPassages == InitPassages /\ [][PassagesNext]_vars

(***************************************************************************)
(* Headlines from classification to the dominance snapshot, with no polls: *)
(* each headline goes through classifyMediaItem, the classified items      *)
(* through aggregate_media_framing, and the media aggregate with the       *)
(* public aggregate of no polls through compute_dominant_respect_now.      *)
(***************************************************************************)
\* how many headlines a call is given
MaxHeadlines == 3

\* the ages, in days, of the headlines
Ages == {0, 7, 13}

ScenarioHeadlines ==
    {"Small boats crossings hit record", "Migrants rescued off Dover", "Minister visits school",
     "Asylum backlog grows"}

\* a subject without an institutional constant
ScenarioSubjects == Subjects \ {SUBJECT_ID}

HeadlineItem(i, title, age) ==
    [ id |-> ConnectorItemId("news_api", i - 1), outlet |-> "BBC", title |-> title, lede |-> <<>>,
      url |-> NoUrl, days_ago |-> age, respect_id |-> <<>> ]

\* up to `most` headlines with pairwise distinct ids
HeadlineLists(most) ==
    UNION { { [i \in 1..n |-> HeadlineItem(i, t[i], a[i])] :
                t \in [1..n -> ScenarioHeadlines], a \in [1..n -> Ages] } : n \in 0..most }

HeadlinesPathOf(subjectId, classified, mediaAgg, publicAgg) ==
    [ classified |-> classified, mediaAgg |-> mediaAgg, publicAgg |-> publicAgg,
      dominance |-> compute_dominant_respect_now(subjectId, mediaAgg, publicAgg) ]

HeadlinesAggregated(subjectId, rawMedia, classified) ==
    HeadlinesPathOf(subjectId, classified,
                    aggregate_media_framing(subjectId, classified, rawMedia, MEDIA_WINDOW_DAYS),
                    aggregate_public_polling(subjectId, classified, <<>>, POLL_WINDOW_MONTHS))

HeadlinesPath(subjectId, rawMedia) ==
    HeadlinesAggregated(subjectId, rawMedia, MapSeq(rawMedia, LAMBDA m : classifyMediaItem(subjectId, m)))

HeadlinesInit ==
    /\ dsubject = "small_boats"
    /\ dmedia = MediaAggOf(<<>>)
    /\ dpublic = PublicAggOf(<<>>)
    /\ dsnapshot = Null
    /\ dpc = "idle"
    /\ call \in {[fn |-> "headlines_path", arg |-> <<s, h>>, result |-> <<>>] :
                    s \in ScenarioSubjects, h \in HeadlineLists(MaxHeadlines)}

ClassifyAggregateAndVote ==
    Pending("headlines_path") /\ Return(HeadlinesPath(call.arg[1], call.arg[2]))

HeadlinesNext == ClassifyAggregateAndVote

InitHeadlines == HeadlinesInit /\ StoreInit /\ RefreshIdle

SpecHeadlines == InitHeadlines /\ [][HeadlinesNext]_vars

(***************************************************************************)
(* build_subject_view_model called on its own: party positions as the DRCM *)
(* data gives them, with or without the overrides of extractPartyStance,   *)
(* and the aggregates of two metric lists of the same length.              *)
(***************************************************************************)
\* DRCM_TO_PIPELINE_RESPECT[id] ?? id
getPipelineRespectIdFromDRCM(drcmPoliticalId) ==
    CASE drcmPoliticalId = "security_border" -> "security_border"
      [] drcmPoliticalId = "humanitarian_protection" -> "humanitarian"
      [] drcmPoliticalId = "legal_procedural" -> "rule_of_law"
      [] drcmPoliticalId = "sovereignty_control" -> "sovereignty_control"
      [] drcmPoliticalId = "economic_labour" -> "economy_prosperity"
      [] drcmPoliticalId = "administrative_capacity" -> "capacity_delivery"
      [] OTHER -> drcmPoliticalId

\* how many party positions and how many metrics a call is given
MaxCards == 2

MaxMetrics == 2

\* political_respect_id values of the DRCM assessments, one of them outside
\* the mapping table
DrcmRespectIds == {"security_border", "humanitarian_protection", "administrative_capacity", "stability_risk"}

CardActors == <<"conservative", "labour", "green", "reform">>

\* a position with its primary framing as partyPrimaryPipelineRespect resolves it
CardPosition(i, drcmId) ==
    [ actor_id |-> CardActors[i], primary |-> getPipelineRespectIdFromDRCM(drcmId),
      secondary |-> <<>>, evidence |-> <<>> ]

CardPositionLists(most) ==
    UNION { { [i \in 1..n |-> CardPosition(i, d[i])] : d \in [1..n -> DrcmRespectIds] } : n \in 0..most }

\* partyStanceOverrides: none given, or those of extractPartyStance with the
\* first party's stance replaced
CardOverrides(positions) ==
    { <<>>,
      [i \in 1..Len(positions) |->
          IF i = 1 THEN [extractPartyStance(positions, <<>>).overrides[i] EXCEPT !.primary_respect = "rule_of_law"]
          ELSE extractPartyStance(positions, <<>>).overrides[i]] }

\* a metric with the latest value below or above the previous one
MetricReading(i, latest) ==
    [ metric_id |-> <<"channel_crossings", "asylum_backlog", "returns">>[i],
      label |-> <<"Channel crossings (small boats)", "Asylum backlog", "Asylum backlog">>[i],
      latest_value |-> latest, previous_value |-> 29500, source_ref |-> <<"metric_gov_small_boats">> ]

LatestValues == {29000, 43600}

MetricLists(n) == { [i \in 1..n |-> MetricReading(i, v[i])] : v \in [1..n -> LatestValues] }

CardMediaAggs ==
    { MediaAggOf(<<>>), MediaAggOf(<<[respect_id |-> "humanitarian", share |-> One]>>) }

CardInputs(mostCards, mostMetrics) ==
    UNION { { <<ps, o, m, a, b>> : o \in CardOverrides(ps), m \in CardMediaAggs, a \in MetricLists(n), b \in MetricLists(n) } :
              ps \in CardPositionLists(mostCards), n \in 0..mostMetrics }

\* the view model built from positions, overrides, a media aggregate and the
\* reality aggregate of a metric list; no polls
ViewModelOf(positions, overrides, mediaAgg, rawMetrics) ==
    build_subject_view_model(SUBJECT_ID, positions, mediaAgg, PublicAggOf(<<>>),
                             aggregate_reality_metrics(SUBJECT_ID, rawMetrics),
                             compute_dominant_respect_now(SUBJECT_ID, mediaAgg, PublicAggOf(<<>>)),
                             <<>>, overrides,
                             [media_updated |-> TRUE, polling_updated |-> FALSE, metrics_updated |-> rawMetrics # <<>>],
                             {})

CardsInit ==
    /\ dsubject = "small_boats"
    /\ dmedia = MediaAggOf(<<>>)
    /\ dpublic = PublicAggOf(<<>>)
    /\ dsnapshot = Null
    /\ dpc = "idle"
    /\ call \in {[fn |-> "build_subject_view_model", arg |-> a, result |-> <<>>] : a \in CardInputs(MaxCards, MaxMetrics)}

\* the builder is called once with each of the two metric lists
BuildViewModels ==
    /\ Pending("build_subject_view_model")
    /\ Return(<< ViewModelOf(call.arg[1], call.arg[2], call.arg[3], call.arg[4]),
                 ViewModelOf(call.arg[1], call.arg[2], call.arg[3], call.arg[5]) >>)

CardsNext == BuildViewModels

InitCards == CardsInit /\ StoreInit /\ RefreshIdle

SpecCards == InitCards /\ [][CardsNext]_vars

(***************************************************************************)
(* aggregate_media_framing on its own, given up to MaxClassified          *)
(* classified headlines of differing age and confidence.                   *)
(***************************************************************************)
MaxClassified == 7

ExemplarFramings == <<"security_border", "humanitarian", "rule_of_law">>

ExemplarConfidences == <<Q(1, 2), Q(3, 4), One>>

\* the i-th fetched headline, published `age` days before the refresh
ExemplarRaw(i, age) ==
    [ id |-> ConnectorItemId("rss", i - 1), outlet |-> "BBC",
      title |-> "Small boats crossings hit record", lede |-> <<>>, url |-> NoUrl,
      days_ago |-> age, respect_id |-> <<>> ]

\* its classification; framing and confidence go round by position
ExemplarClassified(i) ==
    [ item_type |-> "media", subject_id |-> SUBJECT_ID,
      item_id |-> ConnectorItemId("rss", i - 1),
      respect_id |-> ExemplarFramings[((i - 1) % 3) + 1],
      confidence |-> ExemplarConfidences[((i - 1) % 3) + 1],
      rationale |-> "Matched", extracted_phrases |-> <<>> ]

ExemplarInputs(most) ==
    UNION {{<<[i \in 1..n |-> ExemplarClassified(i)], [i \in 1..n |-> ExemplarRaw(i, a[i])]>> :
               a \in [1..n -> Ages]} : n \in 0..most}

ExemplarsInit ==
    /\ dsubject = "small_boats"
    /\ dmedia = MediaAggOf(<<>>)
    /\ dpublic = PublicAggOf(<<>>)
    /\ dsnapshot = Null
    /\ dpc = "idle"
    /\ call \in {[fn |-> "aggregate_media_framing", arg |-> x, result |-> <<>>] : x \in ExemplarInputs(MaxClassified)}

AggregateMediaFraming ==
    /\ Pending("aggregate_media_framing")
    /\ Return(aggregate_media_framing(SUBJECT_ID, call.arg[1], call.arg[2], MEDIA_WINDOW_DAYS))

ExemplarsNext == AggregateMediaFraming

InitExemplars == ExemplarsInit /\ StoreInit /\ RefreshIdle

SpecExemplars == InitExemplars /\ [][ExemplarsNext]_vars



(***************************************************************************)
(* Claims about the dominance engine (checked under SpecDominance).        *)
(***************************************************************************)
\* the ranked scores a snapshot exposes: the winner, then the alternatives
Ranking(snap) == <<snap.dominant>> \o snap.alternative

Ranked(snap) == {e.respect_id : e \in Range(Ranking(snap))}

RankScore(snap, f) == MapGet(Ranking(snap), f)

\* the share a list of shares reports for framing f (0 when it does not list f)
ShareIn(shares, f) ==
    IF \E i \in 1..Len(shares) : shares[i].respect_id = f
    THEN shares[CHOOSE i \in 1..Len(shares) : shares[i].respect_id = f].share
    ELSE Zero

InstitutionalShare(subjectId, f) ==
    IF /\ INSTITUTIONAL_RESPECT_BY_SUBJECT(subjectId) # Null
       /\ INSTITUTIONAL_RESPECT_BY_SUBJECT(subjectId).respect_id = f
    THEN One ELSE Zero

TopShare(top, f) == IF top.respect_id = f THEN top.share ELSE Zero

C2_Input ==
    /\ INSTITUTIONAL_RESPECT_BY_SUBJECT(dsubject) = Null
    /\ Len(dmedia.shares) = 3
    /\ dpublic.shares = dmedia.shares
    /\ <<dmedia.shares[1].share, dmedia.shares[2].share, dmedia.shares[3].share>>
           = <<Q(50, 100), Q(42, 100), Q(8, 100)>>

C3_TieBreakCatalogOrder ==
    dpc = "done" =>
        \A i, j \in 1..Len(Ranking(dsnapshot)) :
            (i < j /\ Ranking(dsnapshot)[i].score = Ranking(dsnapshot)[j].score)
                => CatalogIndex(Ranking(dsnapshot)[i].respect_id)
                       < CatalogIndex(Ranking(dsnapshot)[j].respect_id)

(***************************************************************************)
(* Storage claims, checked under SpecStorage.                              *)
(***************************************************************************)
\* the records the appends wrote to a file, in the order they were written
Written(file) ==
    LET entries == SelectSeq(log, LAMBDA e : e.file = file)
    IN  [i \in 1..Len(entries) |-> entries[i].record]

\* the payload of the last view model stored for the subject, <<>> when none
LastStoredFor(subjectId) ==
    LET vms == store["view_models"]
        idx == {i \in 1..Len(vms) : vms[i].subject_id = subjectId}
    IN  IF idx = {} THEN <<>>
        ELSE <<vms[CHOOSE i \in idx : \A j \in idx : j <= i].payload>>

\* C6: after any sequence of storage appends every record ever stored is still
\* in its file, unchanged and at the position it was written to (the array
\* before a call is a prefix of the array after it), and
\* getLatestViewModel(subject) returns the payload of the last stored record
\* with that subject_id, or null when there is none.
C6_AppendOnlyLatestLast ==
    /\ \A f \in Files : store[f] = Written(f)
    /\ \A f \in Files : IsPrefix(lastCall.before[f], store[f])
    /\ lastCall.op = "getLatestViewModel" => lastCall.value = LastStoredFor(lastCall.subject)

\* two view models of one subject with different payloads are stored, with a
\* record of the other subject after them, and the latest one is read back
C6_Witness ==
    /\ lastCall.op = "getLatestViewModel"
    /\ Len(store["view_models"]) = 3
    /\ store["view_models"][1].subject_id = lastCall.subject
    /\ store["view_models"][2].subject_id = lastCall.subject
    /\ store["view_models"][3].subject_id # lastCall.subject
    /\ store["view_models"][1].payload # store["view_models"][2].payload
    /\ lastCall.value = <<store["view_models"][2].payload>>

\* C9: appendRawPoll called with a poll whose options and results lengths
\* differ, or that the validator rejects for another reason, reports an error
\* and leaves the stored raw_polls array exactly as it was.
C9_InvalidPollNotStored ==
    (/\ lastCall.op = "appendRawPoll"
     /\ \/ Len(lastCall.arg[1].options) # Len(lastCall.arg[1].results)
        \/ PollErrors(lastCall.arg[1]) # {})
    => /\ lastCall.result = "error"
       /\ store["raw_polls"] = lastCall.before["raw_polls"]
       /\ store = lastCall.before

\* a poll with three options and two results is refused while raw_polls
\* already holds a poll
C9_Witness ==
    /\ lastCall.op = "appendRawPoll"
    /\ Len(lastCall.arg[1].options) # Len(lastCall.arg[1].results)
    /\ lastCall.result = "error"
    /\ Len(store["raw_polls"]) > 0

(***************************************************************************)
(* Claims about one refresh (checked under SpecRefresh).                   *)
(***************************************************************************)
\* the refresh has passed its classification step
Classified(l) == l.pc \in {"summaries", "done"}

\* the oracle was asked and failed: the call could not be made, or the reply
\* was not JSON
OracleFailed(l) ==
    /\ env.OPENAI_API_KEY
    /\ l.mediaToClassify # <<>>
    /\ (OPENAI \in down \/ oracle = "non_json")

\* C4 as stated: when the oracle is configured and fails, by a transport error
\* or by a reply that is not JSON, every media item of the batch carries the
\* keyword classifier's classification
C4_OracleFailureFallsBack ==
    (Classified(rf["r1"]) /\ OracleFailed(rf["r1"]))
    => \A m \in Range(rf["r1"].mediaToClassify) :
           classifyMediaItem(SUBJECT_ID, m) \in Range(rf["r1"].classified)

\* how many classified items of a type carry an item id
ClassifiedCount(l, type, id) ==
    Cardinality({i \in 1..Len(l.classified) :
                    l.classified[i].item_type = type /\ l.classified[i].item_id = id})

\* C5 as stated: after the classification step the classified list holds exactly
\* one item for every deduplicated raw media item, every valid poll and every
\* metric, and nothing else
C5_ExactlyOneClassifiedPerItem ==
    Classified(rf["r1"]) =>
        /\ \A m \in Range(rf["r1"].rawMedia) : ClassifiedCount(rf["r1"], "media", m.id) = 1
        /\ \A q \in Range(rf["r1"].rawPolls) : ClassifiedCount(rf["r1"], "poll", q.id) = 1
        /\ \A m \in Range(rf["r1"].rawMetrics) :
              ClassifiedCount(rf["r1"], "metric", m.metric_id) = 1
        /\ Len(rf["r1"].classified) =
              Len(rf["r1"].rawMedia) + Len(rf["r1"].rawPolls) + Len(rf["r1"].rawMetrics)

\* the view model the refresh built is the last record of the view model file
ViewModelPersisted(l) ==
    /\ store["view_models"] # <<>>
    /\ store["view_models"][Len(store["view_models"])].payload = l.viewModel

\* C10 as stated: a source whose fetch failed yields no items, and the refresh
\* completes and persists its view model
C10_FailedFetchYieldsEmpty ==
    rf["r1"].pc = "done" =>
        /\ NEWS_API_BASE \in down => rf["r1"].results.newsApi.items = <<>>
        /\ GUARDIAN_API_BASE \in down => rf["r1"].results.guardian.items = <<>>
        /\ GNEWS_BASE \in down => rf["r1"].results.gnews.items = <<>>
        /\ GOV_SMALL_BOATS_URL \in down => rf["r1"].results.metrics.items = <<>>
        /\ (rf["r1"].rssCalled /\ \A f \in Range(RssFeeds) : f.url \in down)
               => rf["r1"].newsResult.items = <<>>
        /\ \A d \in Range(PARTY_DOCS) :
               d.canonical_url \in down => d.party_id \notin Range(rf["r1"].documentTextByParty)
        /\ ViewModelPersisted(rf["r1"])

(***************************************************************************)
(* Claims about poll imports followed by a refresh (checked under          *)
(* SpecPolls).                                                             *)
(***************************************************************************)
\* a fieldwork period that can be read as dates: one date, or two joined by "to"
FieldworkParses(t) ==
    \/ DateParses(t)
    \/ \E i \in 1..Len(t) : /\ t[i] = "to"
                            /\ DateParses(SubSeq(t, 1, i - 1))
                            /\ DateParses(SubSeq(t, i + 1, Len(t)))

\* a poll that fails validation in the sense of the claim
FailsValidation(p) ==
    \/ Len(p.options) # Len(p.results)
    \/ SumSeq(p.results) < ShareUnit - RESULTS_SUM_TOLERANCE
    \/ SumSeq(p.results) > ShareUnit + RESULTS_SUM_TOLERANCE
    \/ p.sample_size # <<>> /\ (p.sample_size[1] < 10 \/ p.sample_size[1] % 10 # 0)
    \/ p.fieldwork_dates # <<>> /\ ~FieldworkParses(p.fieldwork_dates)
    \/ p.published_at # <<>> /\ ~DateParses(p.published_at)

StoredPolls == MapSeq(getRawPollsForSubject(store, SUBJECT_ID), LAMBDA r : r.payload)

\* the public aggregate of the stored polls that do not fail validation
AggregateOfSoundPolls ==
    aggregate_public_polling(SUBJECT_ID,
        MapSeq(SelectSeq(StoredPolls, LAMBDA p : ~FailsValidation(p)),
               LAMBDA p : classifyPollItem(SUBJECT_ID, p)),
        SelectSeq(StoredPolls, LAMBDA p : ~FailsValidation(p)),
        POLL_WINDOW_MONTHS)

\* C8 as stated: whatever route filed it, a poll that fails validation (length
\* mismatch, results sum outside 1 +/- 0.02, sample size not a positive integer,
\* dates that cannot be parsed) is absent from the public aggregate's
\* source_ids and question_level, and the shares are those of the other polls
C8_InvalidPollContributesNothing ==
    Classified(rf["r1"]) =>
        /\ \A p \in Range(StoredPolls) :
              FailsValidation(p) =>
                  /\ p.id \notin Range(rf["r1"].publicAgg.source_ids)
                  /\ \A q \in Range(rf["r1"].publicAgg.question_level) : q.source_id # p.id
        /\ rf["r1"].publicAgg.shares = AggregateOfSoundPolls.shares

(***************************************************************************)
(* Claims about two refreshes running at once (checked under               *)
(* SpecConcurrent).                                                        *)
(***************************************************************************)
\* how many times refresh p has appended its aggregates, and its view model
Aggregated(p) ==
    IF rf[p].pc \in {"summaries", "done"} THEN rf[p].round
    ELSE IF rf[p].round = 0 THEN 0 ELSE rf[p].round - 1

Saved(p) ==
    IF rf[p].pc = "done" THEN rf[p].round
    ELSE IF rf[p].round = 0 THEN 0 ELSE rf[p].round - 1

HasPayload(file, payload) == \E i \in 1..Len(store[file]) : store[file][i].payload = payload

\* C7: with two refreshes interleaving at their awaits, every record either of
\* them appended is in the store, in the order of the appends: each file holds
\* exactly the records appended to it, three aggregates and one snapshot for
\* every aggregation done, one view model for every refresh finished, and the
\* records of a finished refresh are among them
C7_ConcurrentAppendsAllKept ==
    /\ \A f \in Files : store[f] = Written(f)
    /\ Len(store["aggregates"]) = 3 * (Aggregated("r1") + Aggregated("r2"))
    /\ Len(store["dominance_snapshots"]) = (Aggregated("r1") + Aggregated("r2"))
    /\ Len(store["view_models"]) = (Saved("r1") + Saved("r2"))
    /\ \A p \in Procs :
          rf[p].pc \in {"summaries", "done"} =>
              /\ HasPayload("aggregates", rf[p].mediaAgg)
              /\ HasPayload("aggregates", rf[p].publicAgg)
              /\ HasPayload("aggregates", rf[p].realityAgg)
              /\ HasPayload("dominance_snapshots", rf[p].dominance)
    /\ \A p \in Procs : rf[p].pc = "done" => HasPayload("view_models", rf[p].viewModel)

\* C7 witness: both refreshes have finished, and each appended its aggregates
\* before the other saved its view model
C7_Witness ==
    /\ \A p \in Procs : rf[p].pc = "done" /\ rf[p].round = 1
    /\ Len(store["view_models"]) = 2
    /\ Len(store["dominance_snapshots"]) = 2
    /\ store["dominance_snapshots"][2].id < store["view_models"][1].id

\* C11: every item the keyword classifier returns (classifyMediaItem,
\* classifyPollItem, classifyMetricItem) has a confidence between 0.3 and 0.95
\* and a respect_id of the static catalog
C11_KeywordConfidenceAndCatalog ==
    (call.fn \in {"classifyMediaItem", "classifyPollItem", "classifyMetricItem"}
        /\ call.result # <<>>) =>
        /\ AtLeast(call.result[1].confidence, Q(3, 10))
        /\ AtLeast(Q(95, 100), call.result[1].confidence)
        /\ call.result[1].respect_id \in PIPELINE_RESPECT_IDS

\* C11 witness: a headline whose top score is above 3 was classified, so the
\* upper clamp acted
C11_Witness ==
    /\ call.fn = "classifyMediaItem"
    /\ call.result # <<>>
    /\ Less(Q(3, 1), scoreText(<<call.arg[1].title>> \o call.arg[1].lede)[1].score)
    /\ call.result[1].confidence = Q(95, 100)

MediaDone == call.fn = "media_path" /\ call.result # <<>>

MediaClassifiedOf(r) == SelectSeq(r.classified, LAMBDA c : c.item_type = "media")

RemoveAt(s, j) == [i \in 1..(Len(s) - 1) |-> IF i < j THEN s[i] ELSE s[i + 1]]

\* the positions of the stored list holding a byte-identical copy of an earlier record
CopyPositions(stored) == {j \in 1..Len(stored) : \E i \in 1..(j - 1) : stored[i] = stored[j]}

\* C13: merging and aggregating a list of raw media items that holds a
\* byte-identical copy of one of its items gives the same media framing
\* aggregate (shares, dominant, volume, exemplars, breakdown) as the list
\* without the copy
C13_DuplicateChangesNothing ==
    MediaDone =>
        \A j \in CopyPositions(call.arg[1]) :
            MediaPath(RemoveAt(call.arg[1], j), call.arg[2], call.arg[3]).mediaAgg
                = call.result[1].mediaAgg

\* C13 witness: a stored record and its copy were merged with a fetched item
\* and aggregated
C13_Witness ==
    /\ MediaDone
    /\ CopyPositions(call.arg[1]) # {}
    /\ call.arg[2] # <<>>
    /\ call.result[1].mediaAgg.volume = 2

KeysOf(list) == {mediaKey(list[i]) : i \in 1..Len(list)}

FirstWithKey(list, k) ==
    list[CHOOSE i \in 1..Len(list) :
            mediaKey(list[i]) = k /\ \A j \in 1..(i - 1) : mediaKey(list[j]) # k]

\* the items that survive the merge: per key the first stored item, or the
\* first fetched item when no stored item has the key
Survivors(stored, fetched) ==
    {FirstWithKey(stored, k) : k \in KeysOf(stored)}
        \cup {FirstWithKey(fetched, k) : k \in KeysOf(fetched) \ KeysOf(stored)}

\* C14: when a stored media item and a fetched item share a dedup key, the
\* merged raw media list holds the stored item and not the fetched one; within
\* the stored list and within the fetched list the first item seen with a key
\* is kept and the later ones are dropped
C14_StoredItemWinsMerge ==
    MediaDone =>
        LET stored == call.arg[1]
            fetched == call.arg[2]
            merged == call.result[1].rawMedia
        IN  /\ Range(merged) = Survivors(stored, fetched)
            /\ \A i, j \in 1..Len(merged) : i # j => mediaKey(merged[i]) # mediaKey(merged[j])
            /\ \A f \in Range(fetched) :
                   mediaKey(f) \in KeysOf(stored) =>
                       /\ f \notin Range(merged)
                       /\ FirstWithKey(stored, mediaKey(f)) \in Range(merged)

\* C14 witness: a curated record and a fetched article with its URL, and a
\* curated record without URL and a fetched article with its title in other
\* case and spacing, were merged
C14_Witness ==
    /\ MediaDone
    /\ call.arg[1] = <<Curated1, Curated3>>
    /\ call.arg[2] = << RawMediaOf("news_news_api_1", NewsApiArticles[2]),
                        RawMediaOf("news_gnews_1", GNewsArticles[2]) >>
    /\ call.result[1].rawMedia = <<Curated1, Curated3>>

PollingDone == call.fn = "polling_path" /\ call.result # <<>>

\* the framing an option contributes to as C15 states it: that of the first
\* pattern the option matches, the default framing when it matches none
OptionFraming(opt) ==
    LET hits == {i \in 1..Len(POLL_OPTION_TO_RESPECT) :
                    PatternTest(POLL_OPTION_TO_RESPECT[i].pattern, <<opt>>)}
    IN  IF hits = {} THEN "security_border"
        ELSE POLL_OPTION_TO_RESPECT[CHOOSE i \in hits : \A j \in hits : i <= j].respect_id

\* what framing f receives when every option of every classified poll
\* contributes its result share times the poll's confidence
ContributionToFraming(r, f) ==
    SumQ([k \in 1..Len(r.classified) |->
            LET poll == r.rawPolls[k]
            IN  Times(r.classified[k].confidence,
                      SumQ([i \in 1..Len(poll.options) |->
                               IF OptionFraming(poll.options[i]) = f
                               THEN Q(poll.results[i], 100) ELSE Zero]))])

\* C15 as stated: every option of a poll contributes its result share, to the
\* framing of the first pattern it matches or else to the default framing; for
\* options "Support tougher measures" 0.58 and "Oppose" 0.42 the public prior
\* is security_border with a share of at least 0.58 / total
C15_EveryOptionContributes ==
    PollingDone =>
        LET r == call.result[1]
        IN  /\ \A f \in PIPELINE_RESPECT_IDS :
                   MapGet(r.byRespect, f) = ContributionToFraming(r, f)
            /\ r.rawPolls = <<PollBase>> =>
                   /\ r.publicAgg.public_prior.respect_id = "security_border"
                   /\ AtLeast(r.publicAgg.public_prior.share, Q(58, 100))

(***************************************************************************)
(* Claims about the source registry and the dominance status (checked      *)
(* under SpecRefresh).                                                     *)
(***************************************************************************)
IdsIn(s) == UNION {Range(s[i]) : i \in 1..Len(s)}

\* every source id a view model refers to
ReferencedSourceIds(vm) ==
    IdsIn(MapSeq(vm.dominant_respect.contributors, LAMBDA c : c.source_ids))
        \cup {e.source_id : e \in Range(vm.media_framing.exemplars)}
        \cup Range(vm.media_framing.source_ids)
        \cup Range(vm.public_polling.source_ids)
        \cup {q.source_id : q \in Range(vm.public_polling.supporting_polls)}
        \cup IdsIn(MapSeq(vm.reality_metrics.metrics, LAMBDA m : m.source_id))
        \cup Range(vm.reality_metrics.source_ids)
        \cup IdsIn(MapSeq(vm.party_cards, LAMBDA c : c.evidence_source_ids))

\* C16 as stated: every source id a refresh's view model refers to (dominance
\* contributors, media exemplars and source_ids, polling source_ids, metric
\* source_id, party cards' evidence_source_ids) is a key of its sources_index
C16_EverySourceIdResolves ==
    rf["r1"].pc = "done" =>
        \A id \in ReferencedSourceIds(rf["r1"].viewModel) :
            HasSource(rf["r1"].viewModel.sources_index, id)

PastIngest(l) == l.pc \in {"extract", "collect", "rss", "classify", "summaries", "done"}

PastStance(l) == l.pc \in {"collect", "rss", "classify", "summaries", "done"}

PastMerge(l) == l.pc \in {"classify", "summaries", "done"}

\* the citations the refresh has assigned into sourcesIndex so far, in the
\* order of the assignments: party documents (line 55), institutional
\* references (line 92), news sources (159), stored media (182), metric
\* sources (190) and stored polls (206)
RegistryWrites(l) ==
    (IF PastIngest(l) THEN ingestPartyDocs(down).sources ELSE <<>>)
        \o (IF PastStance(l) THEN institutionalRefs ELSE <<>>)
        \o (IF PastMerge(l)
            THEN l.newsResult.sources
                 \o MapSeq(MergeByKey(<<>>, MapSeq(getRawMediaForSubject(store, SUBJECT_ID),
                                                   LAMBDA r : r.payload)),
                           LAMBDA m : createSourceRef(m.id, m.title, "news_headline",
                                                      "media_framing"))
                 \o l.results.metrics.sources
                 \o MapSeq(l.rawPolls, LAMBDA q : createSourceRef(q.id, q.pollster, "poll",
                                                                  "polling_evidence"))
            ELSE <<>>)

\* C17 as stated: once a citation has been written into the source registry
\* under an id, no later step of the same refresh removes it or replaces it
\* by a different citation
C17_RegistryOnlyGrows ==
    \A w \in Range(RegistryWrites(rf["r1"])) : w \in Range(rf["r1"].sourcesIndex)

\* C18: every dominance snapshot compute_dominant_respect_now returns, and
\* every dominance record in storage after any sequence of refreshes, has the
\* status "proposed"; nothing produces or rewrites a snapshot as "validated"
C18_StatusAlwaysProposed ==
    /\ dpc = "done" => dsnapshot.status = "proposed"
    /\ \A p \in Procs : rf[p].dominance # Null => rf[p].dominance.status = "proposed"
    /\ \A i \in 1..Len(store["dominance_snapshots"]) :
           store["dominance_snapshots"][i].payload.status = "proposed"
    /\ \A i \in 1..Len(store["view_models"]) :
           store["view_models"][i].payload.dominant_respect.status = "proposed"

\* C18 witness: two refreshes have run to their end and each stored its
\* dominance snapshot
C18_Witness ==
    /\ Len(store["dominance_snapshots"]) = 2
    /\ Len(store["view_models"]) = 2
    /\ \A p \in Procs : rf[p].pc \in {"idle", "done"}

\* the extractor has returned
PassagesDone == call.fn = "extractPassagesForSubject" /\ call.result # << >>

\* the segments of the call's text and those of them that hold a trigger
CallSegments == SegmentsOf(call.arg[1], OptsOf(call.arg[3]))

TriggerSegmentsOf(segs, triggers) == {i \in 1..Len(segs) : FirstMatchFrom(segs[i].text, triggers, 1) # 0}

TriggerSegments == TriggerSegmentsOf(CallSegments, TriggersOf(call.arg[2]))

\* the call segmented its text into sentences
SentenceCall == PassagesDone /\ ~OptsOf(call.arg[3]).useParagraphs

\* the first and the last sentence a window around sentences i..j covers
FirstCovered(segs, i, w) == segs[IF i - w < 1 THEN 1 ELSE i - w]

LastCovered(segs, j, w) == segs[IF j + w > Len(segs) THEN Len(segs) ELSE j + w]

\* exactly one passage, from the first to the last covered sentence
OneMergedPassage(segs, ps, i, j, w) ==
    /\ Len(ps) = 1
    /\ ps[1].start = FirstCovered(segs, i, w).start
    /\ ps[1].end = LastCovered(segs, j, w).end

\* exactly two passages that share no character, one around each trigger
TwoSeparatePassages(segs, ps, i, j, w) ==
    /\ Len(ps) = 2
    /\ ps[1].start = FirstCovered(segs, i, w).start
    /\ ps[1].end = LastCovered(segs, i, w).end
    /\ ps[2].start = FirstCovered(segs, j, w).start
    /\ ps[2].end = LastCovered(segs, j, w).end
    /\ ps[1].end <= ps[2].start

\* what the claim states of a text whose trigger sentences are `trig`
AsStatedOf(segs, trig, w, ps) ==
    \A i \in trig :
        trig = {i, i + 3} =>
            /\ w = 1 => TwoSeparatePassages(segs, ps, i, i + 3, 1)
            /\ w = 2 => OneMergedPassage(segs, ps, i, i + 3, 2)

\* C19 as stated: with two trigger sentences 3 sentences apart the extractor
\* returns two non-overlapping passages at window 1 and exactly one merged
\* passage, from the first to the last covered sentence, at window 2
C19_TwoPassagesAtWindowOne ==
    SentenceCall => AsStatedOf(CallSegments, TriggerSegments, OptsOf(call.arg[3]).sentenceWindow, call.result[1])

\* at window 1 the two windows are merged exactly when at most 1 character
\* lies between the last sentence of the first and the first of the second
AtWindowOne(segs, ps, i, j) ==
    IF segs[j - 1].start <= segs[i + 1].end + 1
    THEN OneMergedPassage(segs, ps, i, j, 1)
    ELSE TwoSeparatePassages(segs, ps, i, j, 1)

MergeBoundaryOf(segs, trig, w, ps) ==
    \A i \in trig : \A d \in {3, 4} :
        trig = {i, i + d} =>
            /\ w = 1 => AtWindowOne(segs, ps, i, i + d)
            /\ w = 2 => OneMergedPassage(segs, ps, i, i + d, 2)
            /\ (w = 1 /\ d = 3 /\ segs[i + 2].start = segs[i + 1].end) => Len(ps) = 1
            /\ (w = 1 /\ d = 4 /\ segs[i + 2].end - segs[i + 2].start > 1) => Len(ps) = 2

\* C19 amended: two expanded ranges are merged when at most 1 character lies
\* between them.  With the trigger sentences at positions i and i+3, window 1
\* gives one merged passage when sentence i+2 starts within 1 character of the
\* end of sentence i+1 (always so for sentences that follow each other
\* directly) and two passages otherwise; with three sentences in between
\* (positions i and i+4) window 1 gives two non-overlapping passages when
\* more than 1 character lies between sentences i+1 and i+3 (always so when
\* sentence i+2 is longer than 1 character); window 2 gives exactly one
\* merged passage in both cases, from the first to the last covered sentence
C19_MergeBoundary ==
    SentenceCall => MergeBoundaryOf(CallSegments, TriggerSegments, OptsOf(call.arg[3]).sentenceWindow, call.result[1])

WitnessOf(segs, trig, w, ps) ==
    /\ trig = {1, 4}
    /\ Len(segs) = 4
    /\ segs[3].start = segs[2].end
    /\ w = 1
    /\ Len(ps) = 1
    /\ ps[1].start = 0
    /\ ps[1].end = segs[4].end

\* C19 witness: two trigger sentences 3 apart that follow each other
\* directly, window 1, and one passage over the whole text came back
C19_Witness ==
    SentenceCall /\ WitnessOf(CallSegments, TriggerSegments, OptsOf(call.arg[3]).sentenceWindow, call.result[1])

\* the passages that hold the character at an offset
PassagesHolding(c) ==
    {k \in 1..Len(call.result[1]) : call.result[1][k].start <= c /\ c < call.result[1][k].end}

OrderedAndDisjoint(text, ps) ==
    /\ \A k \in 1..Len(ps) : 0 <= ps[k].start /\ ps[k].start < ps[k].end /\ ps[k].end <= Len(text)
    /\ \A k \in 1..(Len(ps) - 1) : ps[k + 1].start - ps[k].end > 1
    /\ \A c \in 0..(Len(text) - 1) : Cardinality(PassagesHolding(c)) <= 1

\* C20: the passages of one call are non-empty ranges of the text in
\* increasing order, with more than 1 character between one passage and the
\* next, and no character of the text lies in two passages
C20_PassagesOrderedAndDisjoint == PassagesDone => OrderedAndDisjoint(call.arg[1], call.result[1])

\* C20 witness: three segments hold a trigger, the windows of two of them
\* were merged, and two passages came back
C20_Witness ==
    /\ PassagesDone
    /\ Len(call.result[1]) = 2
    /\ Cardinality(TriggerSegments) = 3

\* the headlines have been classified, aggregated and voted on
HeadlinesDone == call.fn = "headlines_path" /\ call.result # <<>>

\* how many of the classified items carry a framing
CountOf(classified, f) == Cardinality({i \in 1..Len(classified) : classified[i].respect_id = f})

\* three headlines, two classified security_border and one humanitarian, for
\* a subject without an institutional constant
TwoSecurityOneHumanitarian ==
    /\ HeadlinesDone
    /\ INSTITUTIONAL_RESPECT_BY_SUBJECT(call.arg[1]) = Null
    /\ Len(call.arg[2]) = 3
    /\ CountOf(call.result[1].classified, "security_border") = 2
    /\ CountOf(call.result[1].classified, "humanitarian") = 1

\* framing f leads the media aggregate with a larger share than g and wins
\* the dominance vote
LeadsAndWins(r, f, g) ==
    /\ r.mediaAgg.dominant.respect_id = f
    /\ Less(ShareIn(r.mediaAgg.shares, g), ShareIn(r.mediaAgg.shares, f))
    /\ r.dominance.dominant.respect_id = f

\* C21 as stated: two headlines classified security_border and one
\* humanitarian, any publish dates, no polls and no institutional constant:
\* security_border is the dominant media framing with a share larger than
\* humanitarian's and wins the dominance vote
C21_SecurityBorderWins ==
    TwoSecurityOneHumanitarian => LeadsAndWins(call.result[1], "security_border", "humanitarian")

\* the summed weight (recency decay times confidence) of the items of a framing
FramingWeight(classified, rawMedia, f) ==
    SumQ(MapSeq(SelectSeq(classified, LAMBDA c : c.respect_id = f),
                LAMBDA c : Times(MaxQ(Q(1, 10), Minus(One, Q(Find(rawMedia, LAMBDA m : m.id = c.item_id)[1].days_ago, 14))),
                                 c.confidence)))

WeightDecides(r, rawMedia) ==
    /\ Less(FramingWeight(r.classified, rawMedia, "humanitarian"), FramingWeight(r.classified, rawMedia, "security_border"))
           => LeadsAndWins(r, "security_border", "humanitarian")
    /\ Less(FramingWeight(r.classified, rawMedia, "security_border"), FramingWeight(r.classified, rawMedia, "humanitarian"))
           => LeadsAndWins(r, "humanitarian", "security_border")

\* C21 amended: in that scenario the framing whose items have the larger
\* summed weight (recency decay times confidence) is the dominant media
\* framing with the larger share and wins the dominance vote: security_border
\* when its two items outweigh the humanitarian one, humanitarian when a
\* recent humanitarian headline outweighs two old security_border ones
C21_HeavierFramingWins ==
    TwoSecurityOneHumanitarian => WeightDecides(call.result[1], call.arg[2])

\* C21 witness: two security_border headlines 13 days old, a humanitarian
\* one of today, and humanitarian wins the vote
C21_Witness ==
    /\ TwoSecurityOneHumanitarian
    /\ \A i \in 1..3 : call.arg[2][i].days_ago = (IF call.result[1].classified[i].respect_id = "humanitarian" THEN 0 ELSE 13)
    /\ call.result[1].dominance.dominant.respect_id = "humanitarian"

\* a step that answers a GET for a subject other than the configured one
RejectedRequest ==
    /\ lastCall' # lastCall
    /\ lastCall'.op = "GET /api/refresh"
    /\ lastCall'.subject # SUBJECT_ID

\* C22: a refresh request for a subject other than the configured one is
\* answered with an explicit error and fetches, classifies and stores
\* nothing: the store, the id count, the write log and every refresh in
\* flight are as before the request
C22_UnknownSubjectRejected ==
    [][RejectedRequest =>
          /\ lastCall'.result = "400"
          /\ lastCall'.value # <<>>
          /\ UNCHANGED <<store, idCounter, log, rf>>]_vars

\* C22 witness: a request for another subject was answered 400 after a
\* refresh had stored its view model, and the store is as before the request
C22_Witness ==
    /\ lastCall.op = "GET /api/refresh"
    /\ lastCall.subject = "other_subject"
    /\ lastCall.result = "400"
    /\ Len(store["view_models"]) >= 1
    /\ store = lastCall.before

\* the two view models have been built
CardsDone == call.fn = "build_subject_view_model" /\ call.result # <<>>

\* the primary framing a card is built with: the override's when the party
\* has one, else the position's
ResolvedPrimary(pos, overrides) ==
    IF \E i \in 1..Len(overrides) : overrides[i].party_id = pos.actor_id
    THEN Find(overrides, LAMBDA o : o.party_id = pos.actor_id)[1].primary_respect
    ELSE pos.primary

RelationAsStated(vm, positions, overrides) ==
    /\ Len(vm.party_cards) = Len(positions)
    /\ \A i \in 1..Len(positions) :
           /\ vm.party_cards[i].relation_to_dominant \in {"matches", "challenges"}
           /\ vm.party_cards[i].relation_to_dominant = "matches"
                  <=> ResolvedPrimary(positions[i], overrides) = vm.dominant_respect.dominant.respect_id

\* C23: on every party card relation_to_dominant is "matches" exactly when
\* the actor's resolved primary framing is the dominance winner and
\* "challenges" otherwise; "reframes" is never produced
C23_RelationMatchesIffWinner ==
    CardsDone => \A k \in 1..2 : RelationAsStated(call.result[1][k], call.arg[1], call.arg[2])

\* C23 witness: two cards, the first challenges because its override differs
\* from the winner its position names, the second matches
C23_Witness ==
    /\ CardsDone
    /\ Len(call.arg[1]) = 2
    /\ call.arg[2] # <<>>
    /\ call.arg[1][1].primary = call.result[1][1].dominant_respect.dominant.respect_id
    /\ call.result[1][1].party_cards[1].relation_to_dominant = "challenges"
    /\ call.result[1][1].party_cards[2].relation_to_dominant = "matches"

FitRealityAsStated(vmA, vmB, positions, overrides, nMetrics) ==
    \A i \in 1..Len(positions) :
        /\ vmA.party_cards[i].fit.reality = vmB.party_cards[i].fit.reality
        /\ vmA.party_cards[i].fit.reality \in {"ok", "warn"}
        /\ vmA.party_cards[i].fit.reality = "ok"
               <=> /\ nMetrics >= 1
                   /\ ResolvedPrimary(positions[i], overrides) \in {"security_border", "humanitarian", "rule_of_law"}

\* C30: fit.reality of a party card does not depend on the values or the
\* direction of the metrics: built with two metric lists of the same length
\* every party gets the same fit.reality, which is "ok" exactly when there
\* is at least one metric and the party's primary framing is
\* security_border, humanitarian or rule_of_law
C30_FitRealityIgnoresValues ==
    CardsDone => FitRealityAsStated(call.result[1][1], call.result[1][2], call.arg[1], call.arg[2], Len(call.arg[4]))

\* C30 witness: the two metric lists move in opposite directions, one party
\* is judged "ok" and another "warn"
C30_Witness ==
    /\ CardsDone
    /\ Len(call.arg[4]) = 2
    /\ \A i \in 1..2 : call.arg[4][i].latest_value < call.arg[4][i].previous_value
    /\ \A i \in 1..2 : call.arg[5][i].latest_value > call.arg[5][i].previous_value
    /\ \E i, j \in 1..Len(call.arg[1]) :
           /\ call.result[1][1].party_cards[i].fit.reality = "ok"
           /\ call.result[1][1].party_cards[j].fit.reality = "warn"

\* aggregate_media_framing has returned
ExemplarsDone == call.fn = "aggregate_media_framing" /\ call.result # <<>>

\* the weight of the classified item an exemplar was made from
ExemplarWeight(e, rawMedia) == Times(recencyDecay(Find(rawMedia, LAMBDA m : m.id = e.source_id)[1].days_ago), e.confidence)

\* the exemplars are k items of the highest weight, heaviest first
TopByWeight(exemplars, classified, rawMedia, k) ==
    /\ Len(exemplars) = k
    /\ \A i, j \in 1..Len(exemplars) : i < j => exemplars[i].source_id # exemplars[j].source_id
    /\ \A i \in 1..Len(exemplars) : \E c \in Range(classified) : c.item_id = exemplars[i].source_id
    /\ \A i \in 1..(Len(exemplars) - 1) :
           ~Less(ExemplarWeight(exemplars[i], rawMedia), ExemplarWeight(exemplars[i + 1], rawMedia))
    /\ \A c \in Range(classified) :
           (\A i \in 1..Len(exemplars) : exemplars[i].source_id # c.item_id)
               => \A i \in 1..Len(exemplars) :
                      ~Less(ExemplarWeight(exemplars[i], rawMedia), MediaWeight(c, rawMedia))

AtMost(k, n) == IF n < k THEN n ELSE k

\* C24 as stated: the exemplars are the 6 classified media items of the
\* highest weight (recency decay times confidence) in descending weight
\* order, or all of them when there are fewer than 6
C24_SixHeaviestExemplars ==
    ExemplarsDone =>
        TopByWeight(call.result[1].exemplars, call.arg[1], call.arg[2], AtMost(6, Len(call.arg[1])))

\* the merged raw items published inside the aggregation window
InWindow(rawMedia, window) == SelectSeq(rawMedia, LAMBDA m : m.days_ago <= window.from /\ m.days_ago >= window.to)

\* C26 as stated: the volume of the media aggregate of a refresh is the
\* number of deduplicated raw media items published inside the aggregation
\* window; stored items published before the window start are not counted
C26_VolumeCountsWindowOnly ==
    MediaDone => call.result[1].mediaAgg.volume
                     = Len(InWindow(call.result[1].rawMedia, call.result[1].mediaAgg.window))

\* entries of equal share stand in catalog order
TiesInCatalogOrder(shares) ==
    \A i, j \in 1..Len(shares) :
        (i < j /\ shares[i].share = shares[j].share)
            => CatalogIndex(shares[i].respect_id) < CatalogIndex(shares[j].respect_id)

\* C25 as stated: when two framings have exactly equal share in the media
\* aggregate, the one listed earlier in the catalog is sorted first in
\* shares and, at the top, reported as dominant, whatever the order of the
\* classified items
C25_MediaTiesByCatalogOrder ==
    HeadlinesDone =>
        /\ TiesInCatalogOrder(call.result[1].mediaAgg.shares)
        /\ call.result[1].mediaAgg.shares # <<>>
               => call.result[1].mediaAgg.dominant = call.result[1].mediaAgg.shares[1]

\* how many contributors of a kind a snapshot lists
ContributorsOf(d, type) == Cardinality({i \in 1..Len(d.contributors) : d.contributors[i].type = type})

\* the vote over two aggregates lists one media and one public contributor
\* and declares security_border dominant with a positive score
SecurityBorderByDefault(d) ==
    /\ ContributorsOf(d, "media") = 1
    /\ ContributorsOf(d, "public") = 1
    /\ d.dominant.respect_id = "security_border"
    /\ Less(Zero, d.dominant.score)

\* both aggregates carry the framing the engine's guards look for, and the
\* vote has at least one score
ScoresNeverEmpty(subjectId, mediaAgg, publicAgg) ==
    /\ "dominant" \in DOMAIN mediaAgg
    /\ "public_prior" \in DOMAIN publicAgg
    /\ VoteScores(mediaAgg, publicAgg, subjectId) # <<>>

EmptyAggregatesAsStated(r) ==
    /\ r.mediaAgg.shares = <<>>
    /\ r.publicAgg.shares = <<>>
    /\ r.mediaAgg.dominant = [respect_id |-> "security_border", share |-> Q(1, 2)]
    /\ r.publicAgg.public_prior = [respect_id |-> "security_border", share |-> Q(1, 2)]
    /\ SecurityBorderByDefault(r.dominance)
    /\ \A s \in Subjects : SecurityBorderByDefault(compute_dominant_respect_now(s, r.mediaAgg, r.publicAgg))

\* C29: with no classified media item and no poll both aggregates report
\* security_border at share 0.5, the vote lists one media and one public
\* contributor and declares security_border dominant with a positive score;
\* for aggregates the aggregators produce the vote never has an empty score
\* table
C29_DefaultsKeepScoresNonEmpty ==
    HeadlinesDone =>
        /\ \A s \in Subjects : ScoresNeverEmpty(s, call.result[1].mediaAgg, call.result[1].publicAgg)
        /\ call.result[1].classified = <<>> => EmptyAggregatesAsStated(call.result[1])

\* C29 witness: the path has run on no headline and no poll
C29_Witness ==
    /\ HeadlinesDone
    /\ call.arg[2] = <<>>
    /\ call.result[1].classified = <<>>
    /\ Len(call.result[1].dominance.contributors) = 2
    /\ call.result[1].dominance.dominant = [respect_id |-> "security_border", score |-> Q(2, 5)]

\* a key of one of the three news APIs is configured
AnyApiKey == env.NEWS_API_KEY \/ env.GUARDIAN_API_KEY \/ env.GNEWS_API_KEY

\* none of the API connectors returned an item
AllApisEmpty(results) ==
    results.newsApi.items = <<>> /\ results.guardian.items = <<>> /\ results.gnews.items = <<>>

\* the ids the API connectors and the RSS connector give their items
ApiItemIds == {ConnectorItemId(c, i) : c \in {"news_api", "guardian_api", "gnews"}, i \in 0..3}

RssItemIds == {ConnectorItemId("rss", i) : i \in 0..8}

IdsOf(items) == {items[i].id : i \in 1..Len(items)}

\* the refresh has left the collecting of headlines behind
NewsCollected(l) == l.pc \in {"classify", "summaries", "done"}

RssOnlyAsFallback(l) ==
    /\ l.rssCalled => /\ l.results # <<>>
                      /\ ~AnyApiKey \/ AllApisEmpty(l.results)
    /\ NewsCollected(l) =>
           /\ l.rssCalled <=> (~AnyApiKey \/ AllApisEmpty(l.results))
           /\ l.mediaSource = "news_api" <=> ~l.rssCalled
           /\ IdsOf(l.newsResult.items) \cap ApiItemIds = {} \/ IdsOf(l.newsResult.items) \cap RssItemIds = {}
           /\ IdsOf(l.rawMedia) \cap ApiItemIds = {} \/ IdsOf(l.rawMedia) \cap RssItemIds = {}
    /\ l.pc = "done" => (l.mediaAgg.media_source = "news_api" <=> ~l.rssCalled)

\* C28: in a refresh the RSS connector is invoked exactly when no API key
\* is configured or every API connector returned no item, and only after
\* the parallel fetches have completed; the aggregate is tagged "news_api"
\* exactly when RSS was not invoked, and API items and RSS items never
\* stand in the same merged set
C28_RssOnlyAsFallback == RssOnlyAsFallback(rf["r1"])

\* C28 witness: a finished refresh with an API key configured whose API
\* connectors returned nothing, so that the RSS items were aggregated
C28_Witness ==
    /\ rf["r1"].pc = "done"
    /\ AnyApiKey
    /\ AllApisEmpty(rf["r1"].results)
    /\ rf["r1"].rssCalled
    /\ IdsOf(rf["r1"].rawMedia) \cap RssItemIds # {}
    /\ rf["r1"].mediaAgg.media_source = "rss"

\* the other branch: a finished refresh that aggregated API items
ApiBranchReached ==
    /\ rf["r1"].pc = "done"
    /\ ~rf["r1"].rssCalled
    /\ IdsOf(rf["r1"].rawMedia) \cap ApiItemIds # {}
    /\ rf["r1"].mediaAgg.media_source = "news_api"

\* where a write stands in the order of a refresh's appends: the three
\* aggregates, the dominance snapshot, the view model
OrderIndex(w) ==
    CASE w.file = "aggregates" /\ w.record.source = "media_14d" -> 1
      [] w.file = "aggregates" /\ w.record.source = "public_6m" -> 2
      [] w.file = "aggregates" /\ w.record.source = "metrics_latest" -> 3
      [] w.file = "dominance_snapshots" -> 4
      [] w.file = "view_models" -> 5
      [] OTHER -> 0

\* every write but a first one follows the write that precedes it in the order
InRefreshOrder(lg) ==
    \A i \in 1..Len(lg) :
        /\ OrderIndex(lg[i]) >= 1
        /\ OrderIndex(lg[i]) > 1 => (i > 1 /\ OrderIndex(lg[i - 1]) = OrderIndex(lg[i]) - 1)

\* each file holds exactly the records written to it, in the order written
FilesHoldWrites(st, lg) ==
    \A f \in Files : st[f] = MapSeq(SelectSeq(lg, LAMBDA w : w.file = f), LAMBDA w : w.record)

\* every stored view model carries a dominance snapshot stored before it
SnapshotBeforeViewModel(lg) ==
    \A i \in 1..Len(lg) :
        lg[i].file = "view_models"
            => \E j \in 1..(i - 1) :
                   /\ lg[j].file = "dominance_snapshots"
                   /\ lg[j].record.payload = lg[i].record.payload.dominant_respect

AppendsInOrder ==
    /\ InRefreshOrder(log)
    /\ FilesHoldWrites(store, log)
    /\ Len(store["view_models"]) <= Len(store["dominance_snapshots"])
    /\ SnapshotBeforeViewModel(log)

NothingRolledBack ==
    /\ IsPrefix(log, log')
    /\ \A f \in Files : IsPrefix(store[f], store'[f])

====
